---------------------------- MODULE Spec2Model ----------------------------
(***************************************************************************)
(* A model of the trigram code-search index (src/src/code_search.py), its  *)
(* filesystem watcher (src/src/file_watcher.py), the project loader        *)
(* (src/src/indexer.py) and the changeset applicator (src/src/utils.py).   *)
(*                                                                         *)
(* Text is a sequence of one-character strings.  A regular expression is   *)
(* the parse tree that sre_parse.parse hands to _mandatory_trigrams: a     *)
(* record [ic, data] where ic is the IGNORECASE flag of the parse state    *)
(* and data a sequence of nodes [op, ch, set, min, max, sub].              *)
(***************************************************************************)
EXTENDS Integers, Sequences, FiniteSets, TLC

VARIABLES
  regex,     \* the regex as it is written, before sre_parse.parse
  rx,        \* the regex under analysis (parse tree), or NoRegex
  str,       \* the subject string the regex is matched against
  req,       \* result of required_trigrams(rx)
  hit,       \* whether rx has a match in str
  tpc,       \* "input" before, "done" after the extractor has run
  fs,        \* the project directory: path -> content of each existing file
  queue,     \* filesystem events the observer has not dispatched yet
  pc,        \* "init" before index_project has run, "serving" after
  docs,      \* TrigramRegexSearcher.docs: doc_id -> text
  inv,       \* TrigramRegexSearcher.inv: trigram -> set of doc_ids
  file_mapping,  \* doc_id -> relative path
  path_to_id,    \* IndexUpdateHandler.path_to_id: relative path -> doc_id
  next_id,   \* IndexUpdateHandler.next_id
  res,       \* outcome of the search just made; NoResult once the index moved on
  wt,        \* the observer thread inside a handler: position and locals
  st,        \* the main thread inside search: position and locals
  pre,       \* the searcher's docs and inv before the pending write began
  chg,       \* the changeset handed to apply_all, as its parsed blocks
  ap,        \* apply_all: position, local dictionaries and return value
  fs0,       \* the project directory as it was when apply_all was called
  faults,    \* the files whose read fails, those whose write fails, and how
  srv,       \* the request loop of main: position, observer, last frame, responses
  ign        \* the ignore patterns read at the load; the last should_ignore call

triVars == <<regex, rx, str, req, hit, tpc>>

idxVars == <<fs, queue, pc, docs, inv, file_mapping, path_to_id, next_id, res>>

concVars == <<wt, st, pre>>

applyVars == <<chg, ap, fs0, faults>>

vars == <<regex, rx, str, req, hit, tpc,
          fs, queue, pc, docs, inv, file_mapping, path_to_id, next_id, res,
          wt, st, pre, chg, ap, fs0, faults, srv, ign>>

(* ------------------------------ bounds -------------------------------- *)

\* longest subject string of the extractor specification
MaxStrLen == 4

\* most events waiting for the observer thread
MaxQueue == 1

\* the directory stops changing once next_id has reached this
MaxId == 3

(* ------------------------------- text --------------------------------- *)

Alphabet == {"a", "b", "c", "A"}

Lower(c) == IF c = "A" THEN "a" ELSE c

\* all strings over S of length at most n
StringsUpTo(S, n) == UNION {[1..k -> S] : k \in 0..n}

\* text[i:i+3] of Python, for a 1-based start i
Window(text, i) == <<text[i], text[i + 1], text[i + 2]>>

\* {text[i:i+3] : i in range(len(text) - 2)}
TrigramsOf(text) == {Window(text, i) : i \in 1..(Len(text) - 2)}

\* Python's "t in text" for a trigram t
IsSubstring(t, text) == \E i \in 1..(Len(text) - 2) : Window(text, i) = t

(* --------------------------- regex parse trees ------------------------ *)

\* the upper limit sre_parse gives an unbounded repetition (*, +, {m,}); the
\* extractor never reads it (the "_" of "min_rep, _, repeated_subpat = val")
MAXREPEAT == 2147483647

Node(op, ch, set, min, max, sub) ==
  [op |-> op, ch |-> ch, set |-> set, min |-> min, max |-> max, sub |-> sub]

Lit(c)            == Node("LITERAL", c, {}, 0, 0, <<>>)
AnyChar           == Node("ANY", "", {}, 0, 0, <<>>)
In(S)             == Node("IN", "", S, 0, 0, <<>>)
AtBeginning       == Node("AT_BEGINNING", "", {}, 0, 0, <<>>)
AtEnd             == Node("AT_END", "", {}, 0, 0, <<>>)
Group(p)          == Node("SUBPATTERN", "", {}, 0, 0, <<p>>)
Branch(bs)        == Node("BRANCH", "", {}, 0, 0, bs)
MaxRepeat(m, n, p) == Node("MAX_REPEAT", "", {}, m, n, <<p>>)
MinRepeat(m, n, p) == Node("MIN_REPEAT", "", {}, m, n, <<p>>)
AssertAhead(p)    == Node("ASSERT", "", {}, 0, 0, <<p>>)
AssertNotAhead(p) == Node("ASSERT_NOT", "", {}, 0, 0, <<p>>)
\* a look-behind (?<=p): the direction -1 of the ASSERT node is kept in min
AssertBehind(p)   == Node("ASSERT", "", {}, -1, 0, <<p>>)

\* the nodes of a literal word
LitSeq(w) == [k \in 1..Len(w) |-> Lit(w[k])]

Regex(ic, data) == [ic |-> ic, data |-> data]

(* ------------------------ parsing (sre_parse.parse) ------------------- *)
(* A written pattern is a sequence of the same nodes, with two forms the   *)
(* parser does not keep: NonCapture(p) is the group (?:p), and a BRANCH    *)
(* node standing alone in a sequence is the alternation b1|b2|... written  *)
(* as the whole of a pattern or of a group.                                *)

NonCapture(p) == Node("NONCAPTURE", "", {}, 0, 0, <<p>>)

\* "(p" with no closing parenthesis, as it is written
Unclosed(p) == Node("UNCLOSED", "", {}, 0, 0, <<p>>)

RECURSIVE parse_raises(_)
\* sre_parse.parse raises re.error on the written sequence: a subpattern is
\* not terminated, or a repetition {m,n} has m > n
parse_raises(data) ==
  \E k \in 1..Len(data) :
    \/ data[k].op = "UNCLOSED"
    \/ data[k].op \in {"MAX_REPEAT", "MIN_REPEAT"} /\ data[k].min > data[k].max
    \/ \E b \in 1..Len(data[k].sub) : parse_raises(data[k].sub[b])

\* number of leading nodes that all the alternatives share
RECURSIVE CommonPrefixLen(_, _)
CommonPrefixLen(items, k) ==
  IF /\ \A i \in 1..Len(items) : Len(items[i]) > k
     /\ \A i \in 1..Len(items) : items[i][k + 1] = items[1][k + 1]
  THEN CommonPrefixLen(items, k + 1)
  ELSE k

\* sre_parse._parse_sub on the parsed alternatives: the common prefix is
\* moved in front; alternatives that are one character each become a set
_parse_sub(items) ==
  IF Len(items) = 1 THEN items[1]
  ELSE LET k == CommonPrefixLen(items, 0)
           rest == [i \in 1..Len(items) |-> SubSeq(items[i], k + 1, Len(items[i]))]
       IN  SubSeq(items[1], 1, k) \o
           (IF \A i \in 1..Len(rest) :
                  Len(rest[i]) = 1 /\ rest[i][1].op \in {"LITERAL", "IN"}
            THEN << In(UNION {IF rest[i][1].op = "LITERAL" THEN {rest[i][1].ch}
                              ELSE rest[i][1].set : i \in 1..Len(rest)}) >>
            ELSE << Branch(rest) >>)

RECURSIVE Parse(_)
RECURSIVE ParseFrom(_, _)

\* the parsed nodes of the written nodes data[k..]: (?:p) is spliced in, a
\* set of one character is that literal, bodies are parsed in turn
ParseFrom(data, k) ==
  IF k > Len(data) THEN <<>>
  ELSE LET n == data[k] IN
    (CASE n.op = "NONCAPTURE" -> Parse(n.sub[1])
       [] n.op = "IN" /\ Cardinality(n.set) = 1 ->
            << Lit(CHOOSE c \in n.set : TRUE) >>
       [] n.op \in {"SUBPATTERN", "MAX_REPEAT", "MIN_REPEAT", "ASSERT", "ASSERT_NOT"} ->
            << [n EXCEPT !.sub = << Parse(n.sub[1]) >>] >>
       [] OTHER -> << n >>)
    \o ParseFrom(data, k + 1)

\* sre_parse.parse of a written sequence
Parse(data) ==
  IF Len(data) = 1 /\ data[1].op = "BRANCH"
  THEN _parse_sub([b \in 1..Len(data[1].sub) |-> Parse(data[1].sub[b])])
  ELSE ParseFrom(data, 1)

\* the parse tree of a written regex; the flags are kept beside it
ParseRegex(p) == Regex(p.ic, Parse(p.data))

(* ------------------------ regex matching (re.search) ------------------ *)

SetMin(a, b) == IF a < b THEN a ELSE b

CharEq(c, d, ic) == IF ic THEN Lower(c) = Lower(d) ELSE c = d

RECURSIVE SeqEnds(_, _, _, _, _)
RECURSIVE NodeEnds(_, _, _, _)
RECURSIVE RepEnds(_, _, _, _, _, _)

\* positions at which a match of node n that starts at position i of s may end
NodeEnds(n, s, i, ic) ==
  CASE n.op = "LITERAL" ->
         IF i <= Len(s) /\ CharEq(s[i], n.ch, ic) THEN {i + 1} ELSE {}
    [] n.op = "ANY" -> IF i <= Len(s) THEN {i + 1} ELSE {}
    [] n.op = "IN" ->
         IF i <= Len(s) /\ (\E c \in n.set : CharEq(s[i], c, ic))
         THEN {i + 1} ELSE {}
    [] n.op = "AT_BEGINNING" -> IF i = 1 THEN {i} ELSE {}
    [] n.op = "AT_END" -> IF i = Len(s) + 1 THEN {i} ELSE {}
    [] n.op = "SUBPATTERN" -> SeqEnds(n.sub[1], 1, s, i, ic)
    [] n.op = "BRANCH" ->
         UNION {SeqEnds(n.sub[b], 1, s, i, ic) : b \in 1..Len(n.sub)}
    [] n.op \in {"MAX_REPEAT", "MIN_REPEAT"} ->
         RepEnds(n.sub[1], n.min, SetMin(n.max, n.min + Len(s)), s, {i}, ic)
    [] n.op = "ASSERT" /\ n.min = -1 ->
         IF \E j \in 1..i : i \in SeqEnds(n.sub[1], 1, s, j, ic) THEN {i} ELSE {}
    [] n.op = "ASSERT" /\ n.min # -1 ->
         IF SeqEnds(n.sub[1], 1, s, i, ic) # {} THEN {i} ELSE {}
    [] n.op = "ASSERT_NOT" ->
         IF SeqEnds(n.sub[1], 1, s, i, ic) = {} THEN {i} ELSE {}

\* ends of min..max repetitions of body p, each started from a position of from
RepEnds(p, min, max, s, from, ic) ==
  LET once == UNION {SeqEnds(p, 1, s, j, ic) : j \in from}
  IN  IF max = 0 \/ from = {} THEN from
      ELSE IF min > 0 THEN RepEnds(p, min - 1, max - 1, s, once, ic)
      ELSE from \cup RepEnds(p, 0, max - 1, s, once, ic)

\* ends of the matches of data[k..] that start at position i of s
SeqEnds(data, k, s, i, ic) ==
  IF k > Len(data) THEN {i}
  ELSE UNION {SeqEnds(data, k + 1, s, j, ic) : j \in NodeEnds(data[k], s, i, ic)}

\* a * b of two widths, never above MAXREPEAT
WidthTimes(a, b) ==
  IF a = 0 \/ b = 0 THEN 0
  ELSE IF a = MAXREPEAT \/ b = MAXREPEAT THEN MAXREPEAT
  ELSE SetMin(a * b, MAXREPEAT)

\* a + b of two widths, never above MAXREPEAT
WidthPlus(a, b) ==
  IF a = MAXREPEAT \/ b = MAXREPEAT THEN MAXREPEAT ELSE SetMin(a + b, MAXREPEAT)

RECURSIVE getwidth(_, _)
\* SubPattern.getwidth of data[k..]: the least and the greatest number of
\* characters a match may take
getwidth(data, k) ==
  IF k > Len(data) THEN [lo |-> 0, hi |-> 0]
  ELSE LET n == data[k]
           rest == getwidth(data, k + 1)
           subs == [b \in 1..Len(n.sub) |-> getwidth(n.sub[b], 1)]
           w == CASE n.op \in {"LITERAL", "ANY", "IN"} -> [lo |-> 1, hi |-> 1]
                  [] n.op = "SUBPATTERN" -> subs[1]
                  [] n.op = "BRANCH" ->
                       [lo |-> CHOOSE x \in {subs[b].lo : b \in 1..Len(subs)} :
                                 \A b \in 1..Len(subs) : x <= subs[b].lo,
                        hi |-> CHOOSE x \in {subs[b].hi : b \in 1..Len(subs)} :
                                 \A b \in 1..Len(subs) : x >= subs[b].hi]
                  [] n.op \in {"MAX_REPEAT", "MIN_REPEAT"} ->
                       [lo |-> WidthTimes(subs[1].lo, n.min),
                        hi |-> WidthTimes(subs[1].hi, n.max)]
                  [] OTHER -> [lo |-> 0, hi |-> 0]
       IN  [lo |-> WidthPlus(w.lo, rest.lo), hi |-> WidthPlus(w.hi, rest.hi)]

RECURSIVE compile_raises(_)
\* re.compile raises re.error on a parse tree: a look-behind whose body has
\* no fixed width
compile_raises(data) ==
  \E k \in 1..Len(data) :
    \/ /\ data[k].op \in {"ASSERT", "ASSERT_NOT"} /\ data[k].min = -1
       /\ getwidth(data[k].sub[1], 1).lo # getwidth(data[k].sub[1], 1).hi
    \/ \E b \in 1..Len(data[k].sub) : compile_raises(data[k].sub[b])

\* rx.search(s) is not None
HasMatch(r, s) == \E i \in 1..(Len(s) + 1) : SeqEnds(r.data, 1, s, i, r.ic) # {}

(* -------------------- required-trigram extraction --------------------- *)

\* the run cut after its first character
RunEnd_first(data, j) == j

\* first index after the run of LITERAL nodes that starts at data[i]
RECURSIVE RunEnd(_, _)
RunEnd(data, j) ==
  IF j <= Len(data) /\ data[j].op = "LITERAL" THEN RunEnd(data, j + 1) ELSE j

\* the literal string "".join(run) of data[i..j-1]
RunText(data, i, j) == [k \in 1..(j - i) |-> data[i + k - 1].ch]

RECURSIVE IntersectAll_union(_, _)
\* the branches' sets united: a trigram of any one branch is kept
IntersectAll_union(sets, k) ==
  IF Len(sets) = 0 THEN {}
  ELSE IF k = Len(sets) THEN sets[k]
  ELSE sets[k] \cup IntersectAll_union(sets, k + 1)

RECURSIVE IntersectAll(_, _)
\* branch_sets[0] & branch_sets[1] & ... ; nothing for no branch
IntersectAll(sets, k) ==
  IF Len(sets) = 0 THEN {}
  ELSE IF k = Len(sets) THEN sets[k]
  ELSE sets[k] \cap IntersectAll(sets, k + 1)

RECURSIVE MandatoryFrom(_, _)
RECURSIVE _mandatory_trigrams(_, _)

\* the literals of data[i..] read as one run, whatever stands between them
MandatoryFrom_joined(data, i) ==
  LET lits == SelectSeq(SubSeq(data, i, Len(data)), LAMBDA n : n.op = "LITERAL")
  IN  TrigramsOf([k \in 1..Len(lits) |-> lits[k].ch])

\* the loop "while i < len(data)" of _mandatory_trigrams, from index i on
MandatoryFrom(data, i) ==
  IF i > Len(data) THEN {}
  ELSE LET n == data[i] IN
    IF n.op = "LITERAL"
    THEN LET j == RunEnd(data, i + 1)
         IN  TrigramsOf(RunText(data, i, j)) \cup MandatoryFrom(data, j)
    ELSE (CASE n.op = "SUBPATTERN" -> _mandatory_trigrams(n.sub[1], TRUE)
            [] n.op = "BRANCH" ->
                 IntersectAll([b \in 1..Len(n.sub) |->
                                 _mandatory_trigrams(n.sub[b], TRUE)], 1)
            [] n.op = "MAX_REPEAT" -> _mandatory_trigrams(n.sub[1], n.min > 0)
            [] OTHER -> {})
         \cup MandatoryFrom(data, i + 1)

\* the walk made whatever "required" says
_mandatory_trigrams_always(data, required) == MandatoryFrom(data, 1)

_mandatory_trigrams(data, required) ==
  IF ~required THEN {} ELSE MandatoryFrom(data, 1)

\* required_trigrams(regex): the parse tree's data, whatever its flags
required_trigrams(r) == _mandatory_trigrams(r.data, TRUE)

(* ------------------ the regexes the extractor is tried on ------------- *)

Words == {<<"a","b","c">>, <<"b","c","a">>, <<"a","b","c","a">>, <<"a","b">>}

Prefixes == {<<>>, <<"a","b">>, <<"a","b","c">>}

Suffixes == {<<>>, <<"c","a">>}

LeafSeqs ==
  {LitSeq(w) : w \in Words} \cup
  { <<>>,
    <<Lit("a"), AnyChar, Lit("c")>>,
    <<Lit("a"), Lit("b"), In({"c", "a"})>>,
    <<AtBeginning, Lit("a"), Lit("b"), Lit("c")>>,
    <<Lit("a"), Lit("b"), Lit("c"), AtEnd>>,
    <<AssertAhead(LitSeq(<<"a","b","c">>))>>,
    <<Lit("a"), Lit("b"), Lit("c"), AssertNotAhead(<<Lit("a")>>)>>,
    <<MaxRepeat(0, 1, <<Group(<<MaxRepeat(1, MAXREPEAT, LitSeq(<<"a","b","c">>))>>)>>)>>,
    <<MaxRepeat(1, 2, <<Group(<<MaxRepeat(0, 1, LitSeq(<<"a","b","c">>))>>)>>)>>,
    <<Group(<<Lit("a"), Lit("b")>>), Lit("c")>>,
    <<Lit("a"), Lit("b"), MaxRepeat(0, MAXREPEAT, <<AnyChar>>), Lit("c")>> }

CompositeNodes ==
  UNION {{ Group(LitSeq(w)),
           MaxRepeat(0, 1, LitSeq(w)),
           MaxRepeat(0, MAXREPEAT, LitSeq(w)),
           MaxRepeat(1, MAXREPEAT, LitSeq(w)),
           MaxRepeat(1, 2, <<Group(LitSeq(w))>>),
           MaxRepeat(0, 2, <<Group(LitSeq(w))>>),
           MinRepeat(1, MAXREPEAT, LitSeq(w)) } : w \in Words}
  \cup {Group(<<Branch(<<LitSeq(v), LitSeq(w)>>)>>) : v \in Words, w \in Words}
  \cup {Group(<<Branch(<<LitSeq(w), <<>> >>)>>) : w \in Words}

RegexData ==
  LeafSeqs \cup
  {LitSeq(p) \o <<n>> \o LitSeq(q) : p \in Prefixes, q \in Suffixes, n \in CompositeNodes}

\* the written regexes, and their parse trees
WrittenRegexes == {Regex(ic, d) : ic \in BOOLEAN, d \in RegexData}

Regexes == {ParseRegex(p) : p \in WrittenRegexes}

NoRegex == Regex(FALSE, <<>>)

(* ------------------------------ dictionaries -------------------------- *)

EmptyDict == [x \in {} |-> {}]

\* d[k] = v
Put(d, k, v) == [x \in (DOMAIN d) \cup {k} |-> IF x = k THEN v ELSE d[x]]

\* del d[k]
Del(d, k) == [x \in (DOMAIN d) \ {k} |-> d[x]]

\* d.get(k, default)
Get(d, k, default) == IF k \in DOMAIN d THEN d[k] ELSE default

(* ------------------------- index and search --------------------------- *)

\* TrigramRegexSearcher.add_document on a searcher S = [docs, inv]: the text
\* is stored and doc_id joins the posting set of each trigram of the text
add_document(S, doc_id, text) ==
  [docs |-> Put(S.docs, doc_id, text),
   inv  |-> [t \in (DOMAIN S.inv) \cup TrigramsOf(text) |->
               IF t \in TrigramsOf(text)
               THEN Get(S.inv, t, {}) \cup {doc_id}
               ELSE S.inv[t]]]

RECURSIVE IntersectPostings(_, _)
\* the loop "for tg in req": candidates & ids, over the trigrams of todo
IntersectPostings(iv, todo) ==
  LET tg == CHOOSE t \in todo : TRUE
  IN  IF Cardinality(todo) = 1 THEN Get(iv, tg, {})
      ELSE Get(iv, tg, {}) \cap IntersectPostings(iv, todo \ {tg})

\* a scan that takes the documents of the posting sets for all documents
Candidates_posted(S, p) ==
  LET r == required_trigrams(p)
  IN  IF r = {} THEN UNION {S.inv[t] : t \in DOMAIN S.inv}
      ELSE IntersectPostings(S.inv, r)

\* the candidate set of search before the regex is run
Candidates(S, p) ==
  LET r == required_trigrams(p)
  IN  IF r = {} THEN DOMAIN S.docs ELSE IntersectPostings(S.inv, r)

\* the candidates returned as they come out of the trigram filter, the
\* regex never run on their contents
Verify_unfiltered(S, p, candidates) == [err |-> "", ids |-> candidates]

\* the list comprehension that ends search: self.docs[doc] raises KeyError for
\* a candidate that is not stored, otherwise the matching candidates remain
Verify(S, p, candidates) ==
  IF \E d \in candidates : d \notin DOMAIN S.docs
  THEN [err |-> "KeyError", ids |-> {}]
  ELSE [err |-> "", ids |-> {d \in candidates : HasMatch(p, S.docs[d])}]

\* TrigramRegexSearcher.search; the result list is modelled as the set of its
\* elements (its order is the iteration order of a Python set)
search(S, p) ==
  IF required_trigrams(p) # {} /\ Candidates(S, p) = {} THEN [err |-> "", ids |-> {}]
  ELSE IF compile_raises(p.data) THEN [err |-> "re.error", ids |-> {}]
  ELSE Verify(S, p, Candidates(S, p))

\* a search that reads the posting sets with self.inv[tg]: the defaultdict
\* makes an empty posting set for every required trigram it did not have
search_leaves_indexing(S, p) ==
  [docs |-> S.docs,
   inv |-> [t \in (DOMAIN S.inv) \cup required_trigrams(p) |-> Get(S.inv, t, {})]]

\* the searcher as search leaves it: the posting sets are read with
\* self.inv.get(tg, set()), which adds no key, and docs is only read
search_leaves(S, p) == [docs |-> S.docs, inv |-> S.inv]

(* ------------------------------ ignore engine ------------------------- *)

\* name.startswith(prefix)
StartsWith(name, prefix) ==
  /\ Len(prefix) <= Len(name)
  /\ \A k \in 1..Len(prefix) : name[k] = prefix[k]

RECURSIVE GlobFrom(_, _, _, _)
\* fnmatch of name[i..] against pat[j..]: * spans any characters, ? one
GlobFrom(name, i, pat, j) ==
  IF j > Len(pat) THEN i > Len(name)
  ELSE IF pat[j] = "*"
       THEN \E k \in i..(Len(name) + 1) : GlobFrom(name, k, pat, j + 1)
  ELSE /\ i <= Len(name)
       /\ (pat[j] = "?" \/ pat[j] = name[i])
       /\ GlobFrom(name, i + 1, pat, j + 1)

\* fnmatch.fnmatch(name, pat)
fnmatch(name, pat) == GlobFrom(name, 1, pat, 1)

\* the indices at which a component of the relative path starts
PartStarts(rel) == {1} \cup {k + 1 : k \in {x \in 1..Len(rel) : rel[x] = "/"}}

\* a component of rel_path.split(os.sep) starts with "."
HasHiddenPart(rel) == \E k \in PartStarts(rel) : k <= Len(rel) /\ rel[k] = "."

RECURSIVE PatternLoop_last_match(_, _, _)
\* a loop that lets the last matching pattern decide, as git does
PatternLoop_last_match(rel, pats, k) ==
  LET neg(pat) == Len(pat) > 0 /\ pat[1] = "!"
      m(pat) ==
        IF neg(pat) THEN fnmatch(rel, Tail(pat))
        ELSE IF Len(pat) > 0 /\ pat[Len(pat)] = "/"
        THEN fnmatch(rel \o <<"/">>, pat) \/ StartsWith(rel, pat)
        ELSE \/ fnmatch(rel, pat)
             \/ /\ \E x \in 1..Len(pat) : pat[x] = "/"
                /\ ~(\E x \in 1..Len(pat) : pat[x] = "*")
                /\ StartsWith(rel, pat)
  IN  IF k > Len(pats) THEN FALSE
      ELSE IF \E j \in (k + 1)..Len(pats) : m(pats[j])
      THEN PatternLoop_last_match(rel, pats, k + 1)
      ELSE m(pats[k]) /\ ~neg(pats[k])

RECURSIVE PatternLoop(_, _, _)
\* the loop "for pattern in ignore_patterns" of should_ignore, from index k
PatternLoop(rel, pats, k) ==
  IF k > Len(pats) THEN FALSE
  ELSE LET pat == pats[k] IN
    IF Len(pat) > 0 /\ pat[1] = "!"
    THEN IF fnmatch(rel, Tail(pat)) THEN FALSE
         ELSE PatternLoop(rel, pats, k + 1)
    ELSE IF Len(pat) > 0 /\ pat[Len(pat)] = "/"
    THEN IF fnmatch(rel \o <<"/">>, pat) \/ StartsWith(rel, pat) THEN TRUE
         ELSE PatternLoop(rel, pats, k + 1)
    ELSE IF fnmatch(rel, pat) THEN TRUE
    ELSE IF (\E x \in 1..Len(pat) : pat[x] = "/")
             /\ ~(\E x \in 1..Len(pat) : pat[x] = "*")
             /\ StartsWith(rel, pat)
    THEN TRUE
    ELSE PatternLoop(rel, pats, k + 1)

\* the patterns asked first, the hidden-component test made only when no
\* pattern decides
should_ignore_patterns_first(rel, pats) ==
  IF \E k \in 1..Len(pats) :
       Len(pats[k]) > 0 /\ pats[k][1] = "!" /\ fnmatch(rel, Tail(pats[k]))
  THEN PatternLoop(rel, pats, 1)
  ELSE HasHiddenPart(rel) \/ PatternLoop(rel, pats, 1)

\* utils.should_ignore for a path given relative to the project
should_ignore(rel, pats) ==
  \/ HasHiddenPart(rel)
  \/ PatternLoop(rel, pats, 1)

\* the patterns get_ignore_patterns always appends
DefaultPatterns == <<
    <<".","g","i","t","/">>,
    <<".","i","d","e","a","/">>,
    <<"*","_","_","p","y","c","a","c","h","e","_","_","/">>,
    <<"*",".","p","y","c">>,
    <<"*",".","p","y","o">>,
    <<"*",".","s","o">>,
    <<"*",".","o">>,
    <<"*",".","o","b","j">>,
    <<"*",".","D","S","_","S","t","o","r","e">>,
    <<"*","n","o","d","e","_","m","o","d","u","l","e","s">>,
    <<"*",".","v","e","n","v">>,
    <<"*",".","j","p","g">>,
    <<"*",".","p","n","g">>,
    <<"*","u","v",".","l","o","c","k">>,
    <<"*",".","s","w","p">>,
    <<"*",".","s","w","o">>,
    <<"*",".","l","o","g">>,
    <<"*",".","m","y","p","y","_","c","a","c","h","e">>,
    <<".","*">>,
    <<".","*","/">> >>

\* parse_gitignore for a project that has no .gitignore
GitIgnore == <<>>

\* utils.get_ignore_patterns for a project whose .gitignore holds these lines
get_ignore_patterns(gitignore) == gitignore \o DefaultPatterns

\* the list index_project reads at the load and IndexUpdateHandler keeps
ignore_patterns == ign.patterns

\* no should_ignore call under way, the project without .gitignore
IgnIdle ==
  ign = [pc |-> "idle", patterns |-> get_ignore_patterns(GitIgnore),
         path |-> <<>>, result |-> FALSE]

(* --------------------------- the project tree ------------------------- *)

FileA    == <<"a">>
FileB    == <<"b">>
FileDep  == <<"n","o","d","e","_","m","o","d","u","l","e","s","/","x">>
FileHid  == <<".","h">>

Paths == {FileA, FileB, FileDep, FileHid}

\* the contents a file of the tree may take
TextsFor(p) ==
  CASE p = FileA -> {<<"a","b","c">>, <<"A","b","c">>}
    [] p = FileB -> {<<"a","b","c","a">>}
    [] OTHER     -> {<<"a","b","c">>}

\* every directory content: some of the paths exist, each with one of its texts
Trees ==
  UNION {{t \in [S -> UNION {TextsFor(p) : p \in Paths}] :
            \A p \in S : t[p] \in TextsFor(p)} : S \in SUBSET Paths}

\* the directories above a file: the prefixes of its path that end before a "/"
Ancestors(rel) == {SubSeq(rel, 1, k - 1) : k \in {x \in 1..Len(rel) : rel[x] = "/"}}

\* the files os.walk reaches in index_project: no directory above them is
\* pruned, and the file itself is not ignored
Walked(tree, pats) ==
  {p \in DOMAIN tree :
     /\ \A dir \in Ancestors(p) : ~should_ignore(dir, pats)
     /\ ~should_ignore(p, pats)}

\* all orders in which a walk may list the files of S
Orders(S) ==
  {o \in [1..Cardinality(S) -> S] : \A i, j \in 1..Cardinality(S) : o[i] = o[j] => i = j}

RECURSIVE LoadFiles_counting(_, _, _, _, _)
\* a loop that counts every walked file, read or not
LoadFiles_counting(tree, order, k, acc, unreadable) ==
  IF k > Len(order) THEN acc
  ELSE IF order[k] \in unreadable
  THEN LoadFiles_counting(tree, order, k + 1, [acc EXCEPT !.file_id = @ + 1], unreadable)
  ELSE LET S == add_document(acc.searcher, acc.file_id, tree[order[k]])
       IN  LoadFiles_counting(tree, order, k + 1,
             [searcher |-> S,
              file_mapping |-> Put(acc.file_mapping, acc.file_id, order[k]),
              file_id |-> acc.file_id + 1], unreadable)

RECURSIVE LoadFiles(_, _, _, _, _)
\* the loop body of index_project over the walked files, in walk order; a
\* file whose read raises is logged and skipped
LoadFiles(tree, order, k, acc, unreadable) ==
  IF k > Len(order) THEN acc
  ELSE IF order[k] \in unreadable THEN LoadFiles(tree, order, k + 1, acc, unreadable)
  ELSE LET S == add_document(acc.searcher, acc.file_id, tree[order[k]])
       IN  LoadFiles(tree, order, k + 1,
             [searcher |-> S,
              file_mapping |-> Put(acc.file_mapping, acc.file_id, order[k]),
              file_id |-> acc.file_id + 1], unreadable)

\* index_project(project_path) for a walk that lists the files in this order
index_project(tree, order, unreadable) ==
  LoadFiles(tree, order, 1,
    [searcher |-> [docs |-> EmptyDict, inv |-> EmptyDict],
     file_mapping |-> EmptyDict,
     file_id |-> 0], unreadable)

SetMax(S) == CHOOSE m \in S : \A x \in S : x <= m

(* --------------------------- server and watcher ----------------------- *)

NoResult == [pattern |-> NoRegex, err |-> "none", ids |-> {}]

Event(kind, path, dir) == [kind |-> kind, path |-> path, is_directory |-> dir]

\* the observer thread outside any handler
WIdle == [pc |-> "idle", rel |-> <<>>, file_id |-> 0, text |-> <<>>,
          i |-> 0, seen |-> {}, todo |-> {}, fresh |-> FALSE]

\* the main thread outside search
SIdle == [pc |-> "idle", pattern |-> NoRegex, todo |-> {}, first |-> TRUE,
          candidates |-> {}, ids |-> {}, err |-> "", after |-> FALSE]

ConcIdle ==
  /\ wt = WIdle
  /\ st = SIdle
  /\ pre = [docs |-> EmptyDict, inv |-> EmptyDict]

\* every read and every write succeeds
NoFault == [unreadable |-> {}, unwritable |-> {}, transient |-> FALSE, torn |-> FALSE]

\* no apply_all call
ApplyIdle ==
  /\ chg = <<>>
  /\ ap = [pc |-> "idle", files_to_create |-> <<>>, files_to_modify |-> <<>>,
           original_contents |-> <<>>, modified_contents |-> <<>>,
           i |-> 0, ret |-> 0, failed |-> ""]
  /\ fs0 = EmptyDict
  /\ faults = NoFault

\* a body that is no request
NoMessage == [json |-> "none"]

\* main outside its request loop
ServeIdle ==
  srv = [pc |-> "idle", observer |-> "none", n |-> 0, stray |-> FALSE,
         header |-> "", message |-> NoMessage, out |-> <<>>]

\* the searcher and the watcher before the project is loaded
IdxIdle ==
  /\ fs = EmptyDict
  /\ queue = <<>>
  /\ pc = "idle"
  /\ docs = EmptyDict
  /\ inv = EmptyDict
  /\ file_mapping = EmptyDict
  /\ path_to_id = EmptyDict
  /\ next_id = 0
  /\ res = NoResult
  /\ ConcIdle
  /\ ApplyIdle
  /\ ServeIdle
  /\ IgnIdle

TriIdle ==
  /\ regex = NoRegex
  /\ rx = NoRegex
  /\ str = <<>>
  /\ req = {}
  /\ hit = FALSE
  /\ tpc = "idle"

Init ==
  /\ TriIdle
  /\ ServeIdle
  /\ IgnIdle
  /\ fs \in Trees
  /\ queue = <<>>
  /\ pc = "init"
  /\ docs = EmptyDict
  /\ inv = EmptyDict
  /\ file_mapping = EmptyDict
  /\ path_to_id = EmptyDict
  /\ next_id = 0
  /\ res = NoResult
  /\ ConcIdle
  /\ ApplyIdle

\* CodeSearchServer.initialize: index_project(path, watch=True), then
\* IndexUpdateHandler.__init__ over the new index
Load ==
  /\ pc = "init"
  /\ \E order \in Orders(Walked(fs, ignore_patterns)) :
       LET r == index_project(fs, order, {}) IN
       /\ docs' = r.searcher.docs
       /\ inv' = r.searcher.inv
       /\ file_mapping' = r.file_mapping
       /\ next_id' = IF DOMAIN r.file_mapping = {} THEN 0
                     ELSE SetMax(DOMAIN r.file_mapping) + 1
       /\ path_to_id' = [p \in {r.file_mapping[d] : d \in DOMAIN r.file_mapping} |->
                           CHOOSE d \in DOMAIN r.file_mapping : r.file_mapping[d] = p]
  /\ pc' = "serving"
  /\ UNCHANGED <<fs, queue, res>>
  /\ UNCHANGED triVars
  /\ UNCHANGED concVars
  /\ UNCHANGED applyVars
  /\ UNCHANGED srv
  /\ UNCHANGED ign

\* the directory changes while the server runs; the observer queues the event
CanChange == pc = "serving" /\ Len(queue) < MaxQueue /\ next_id < MaxId

FsCreate(p, text) ==
  /\ CanChange
  /\ p \notin DOMAIN fs
  /\ fs' = Put(fs, p, text)
  /\ queue' = Append(queue, Event("created", p, FALSE))
  /\ UNCHANGED <<pc, docs, inv, file_mapping, path_to_id, next_id, res>>
  /\ UNCHANGED triVars
  /\ UNCHANGED concVars
  /\ UNCHANGED applyVars
  /\ UNCHANGED srv
  /\ UNCHANGED ign

FsModify(p, text) ==
  /\ CanChange
  /\ p \in DOMAIN fs
  /\ fs[p] # text
  /\ fs' = Put(fs, p, text)
  /\ queue' = Append(queue, Event("modified", p, FALSE))
  /\ UNCHANGED <<pc, docs, inv, file_mapping, path_to_id, next_id, res>>
  /\ UNCHANGED triVars
  /\ UNCHANGED concVars
  /\ UNCHANGED applyVars
  /\ UNCHANGED srv
  /\ UNCHANGED ign

FsDelete(p) ==
  /\ CanChange
  /\ p \in DOMAIN fs
  /\ fs' = Del(fs, p)
  /\ queue' = Append(queue, Event("deleted", p, FALSE))
  /\ UNCHANGED <<pc, docs, inv, file_mapping, path_to_id, next_id, res>>
  /\ UNCHANGED triVars
  /\ UNCHANGED concVars
  /\ UNCHANGED applyVars
  /\ UNCHANGED srv
  /\ UNCHANGED ign

\* a directory of the tree is reported modified (the observer reports the
\* parent directory whenever a file in it is created or deleted)
FsTouchDir(dir) ==
  /\ CanChange
  /\ \E p \in DOMAIN fs : dir \in Ancestors(p)
  /\ queue' = Append(queue, Event("modified", dir, TRUE))
  /\ UNCHANGED <<fs, pc, docs, inv, file_mapping, path_to_id, next_id, res>>
  /\ UNCHANGED triVars
  /\ UNCHANGED concVars
  /\ UNCHANGED applyVars
  /\ UNCHANGED srv
  /\ UNCHANGED ign

\* the permissions of a file change, so that reading it fails from now on or
\* succeeds again; the observer reports the file modified
FsChmod(p) ==
  /\ CanChange
  /\ p \in DOMAIN fs
  /\ faults' = [faults EXCEPT !.unreadable =
                  IF p \in @ THEN @ \ {p} ELSE @ \cup {p}]
  /\ queue' = Append(queue, Event("modified", p, FALSE))
  /\ UNCHANGED <<fs, pc, docs, inv, file_mapping, path_to_id, next_id, res>>
  /\ UNCHANGED triVars
  /\ UNCHANGED concVars
  /\ UNCHANGED <<chg, ap, fs0>>
  /\ UNCHANGED srv
  /\ UNCHANGED ign

\* an empty directory is made or removed, or a directory holding files is
\* reported modified; the observer queues the directory event
FsDirEvent(kind, dir) ==
  /\ CanChange
  /\ kind = "modified" <=> \E p \in DOMAIN fs : dir \in Ancestors(p)
  /\ queue' = Append(queue, Event(kind, dir, TRUE))
  /\ UNCHANGED <<fs, pc, docs, inv, file_mapping, path_to_id, next_id, res>>
  /\ UNCHANGED triVars
  /\ UNCHANGED concVars
  /\ UNCHANGED applyVars
  /\ UNCHANGED srv
  /\ UNCHANGED ign

\* an update of an indexed file that adds the new content and forgets to
\* discard the postings of the old one
IndexFile_no_discard(H, tree, rel) ==
  IF should_ignore(rel, ignore_patterns) \/ rel \notin DOMAIN tree THEN H
  ELSE LET known == rel \in DOMAIN H.path_to_id
           file_id == IF known THEN H.path_to_id[rel] ELSE H.next_id
           S == add_document([docs |-> H.docs, inv |-> H.inv], file_id, tree[rel])
       IN  [docs |-> S.docs, inv |-> S.inv,
            file_mapping |-> Put(H.file_mapping, file_id, rel),
            path_to_id |-> Put(H.path_to_id, rel, file_id),
            next_id |-> IF known THEN H.next_id ELSE H.next_id + 1]

\* a handler that opens the file after it has touched the index: a failed
\* read has dropped the old postings of an indexed path, or taken an id
IndexFile_read_late(H, tree, rel) ==
  IF should_ignore(rel, ignore_patterns) THEN H
  ELSE IF rel \in DOMAIN H.path_to_id
  THEN LET file_id == H.path_to_id[rel]
           old_content == Get(H.docs, file_id, <<>>)
           pruned == [t \in DOMAIN H.inv |->
                        IF t \in TrigramsOf(old_content)
                        THEN H.inv[t] \ {file_id} ELSE H.inv[t]]
       IN  IF rel \notin DOMAIN tree \/ rel \in faults.unreadable
           THEN [H EXCEPT !.inv = pruned]
           ELSE LET S == add_document([docs |-> H.docs, inv |-> pruned], file_id, tree[rel])
                IN  [H EXCEPT !.docs = S.docs, !.inv = S.inv]
  ELSE IF rel \notin DOMAIN tree \/ rel \in faults.unreadable
       THEN [H EXCEPT !.next_id = H.next_id + 1]
       ELSE LET S == add_document([docs |-> H.docs, inv |-> H.inv], H.next_id, tree[rel])
            IN  [docs |-> S.docs, inv |-> S.inv,
                 file_mapping |-> Put(H.file_mapping, H.next_id, rel),
                 path_to_id |-> Put(H.path_to_id, rel, H.next_id),
                 next_id |-> H.next_id + 1]

\* a handler that indexes the file without asking should_ignore
IndexFile_ignored_too(H, tree, rel) ==
  IF rel \notin DOMAIN tree THEN H
  ELSE IF rel \in DOMAIN H.path_to_id
  THEN LET file_id == H.path_to_id[rel]
           old_content == Get(H.docs, file_id, <<>>)
           pruned == [t \in DOMAIN H.inv |->
                        IF t \in TrigramsOf(old_content)
                        THEN H.inv[t] \ {file_id} ELSE H.inv[t]]
           S == add_document([docs |-> H.docs, inv |-> pruned], file_id, tree[rel])
       IN  [H EXCEPT !.docs = S.docs, !.inv = S.inv]
  ELSE LET S == add_document([docs |-> H.docs, inv |-> H.inv], H.next_id, tree[rel])
       IN  [docs |-> S.docs, inv |-> S.inv,
            file_mapping |-> Put(H.file_mapping, H.next_id, rel),
            path_to_id |-> Put(H.path_to_id, rel, H.next_id),
            next_id |-> H.next_id + 1]

\* an update that gives the file a new id each time it is indexed
IndexFile_new_id(H, tree, rel) ==
  IF should_ignore(rel, ignore_patterns) \/ rel \notin DOMAIN tree THEN H
  ELSE LET R == IF rel \in DOMAIN H.path_to_id
                THEN [docs |-> Del(H.docs, H.path_to_id[rel]),
                      inv |-> [t \in DOMAIN H.inv |-> H.inv[t] \ {H.path_to_id[rel]}],
                      file_mapping |-> Del(H.file_mapping, H.path_to_id[rel])]
                ELSE [docs |-> H.docs, inv |-> H.inv, file_mapping |-> H.file_mapping]
           S == add_document([docs |-> R.docs, inv |-> R.inv], H.next_id, tree[rel])
       IN  [docs |-> S.docs, inv |-> S.inv,
            file_mapping |-> Put(R.file_mapping, H.next_id, rel),
            path_to_id |-> Put(H.path_to_id, rel, H.next_id),
            next_id |-> H.next_id + 1]

\* IndexUpdateHandler._index_file as one step: the outcome [docs, inv,
\* file_mapping, path_to_id, next_id] on handler state H for a file of tree
\* _index_file(H, tree, rel)
IndexFile(H, tree, rel) ==
  IF should_ignore(rel, ignore_patterns) THEN H
  ELSE IF rel \notin DOMAIN tree \/ rel \in faults.unreadable
  THEN H                                     \* open() raises: logged, no change
  ELSE IF rel \in DOMAIN H.path_to_id
  THEN LET file_id == H.path_to_id[rel]
           old_content == Get(H.docs, file_id, <<>>)
           pruned == [t \in DOMAIN H.inv |->
                        IF t \in TrigramsOf(old_content)
                        THEN H.inv[t] \ {file_id} ELSE H.inv[t]]
           S == add_document([docs |-> H.docs, inv |-> pruned], file_id, tree[rel])
       IN  [H EXCEPT !.docs = S.docs, !.inv = S.inv]
  ELSE LET file_id == H.next_id
           S == add_document([docs |-> H.docs, inv |-> H.inv], file_id, tree[rel])
       IN  [docs |-> S.docs, inv |-> S.inv,
            file_mapping |-> Put(H.file_mapping, file_id, rel),
            path_to_id |-> Put(H.path_to_id, rel, file_id),
            next_id |-> H.next_id + 1]

\* a removal that gives the next id back: next_id is computed again from the
\* ids still mapped, as IndexUpdateHandler.__init__ computes it
RemoveFile_rewind(H, rel) ==
  IF rel \notin DOMAIN H.path_to_id THEN H
  ELSE LET fm == Del(H.file_mapping, H.path_to_id[rel])
       IN  [docs |-> Del(H.docs, H.path_to_id[rel]),
            inv |-> [t \in DOMAIN H.inv |-> H.inv[t] \ {H.path_to_id[rel]}],
            file_mapping |-> fm,
            path_to_id |-> Del(H.path_to_id, rel),
            next_id |-> IF DOMAIN fm = {} THEN 0 ELSE SetMax(DOMAIN fm) + 1]

\* a removal that leaves the path of the removed document in path_to_id
RemoveFile_keep_path(H, rel) ==
  IF rel \notin DOMAIN H.path_to_id THEN H
  ELSE [docs |-> Del(H.docs, H.path_to_id[rel]),
        inv |-> [t \in DOMAIN H.inv |-> H.inv[t] \ {H.path_to_id[rel]}],
        file_mapping |-> Del(H.file_mapping, H.path_to_id[rel]),
        path_to_id |-> H.path_to_id,
        next_id |-> H.next_id]

\* a removal that leaves the postings of the removed document in place
RemoveFile_keep_postings(H, rel) ==
  IF rel \notin DOMAIN H.path_to_id THEN H
  ELSE [docs |-> Del(H.docs, H.path_to_id[rel]),
        inv |-> H.inv,
        file_mapping |-> Del(H.file_mapping, H.path_to_id[rel]),
        path_to_id |-> Del(H.path_to_id, rel),
        next_id |-> H.next_id]

\* IndexUpdateHandler.on_deleted after its is_directory test, as one step
RemoveFile(H, rel) ==
  IF rel \notin DOMAIN H.path_to_id THEN H
  ELSE LET file_id == H.path_to_id[rel]
       IN  [docs |-> Del(H.docs, file_id),
            inv |-> [t \in DOMAIN H.inv |-> H.inv[t] \ {file_id}],
            file_mapping |-> Del(H.file_mapping, file_id),
            path_to_id |-> Del(H.path_to_id, rel),
            next_id |-> H.next_id]

Handler == [docs |-> docs, inv |-> inv, file_mapping |-> file_mapping,
            path_to_id |-> path_to_id, next_id |-> next_id]

SetHandler(H) ==
  /\ docs' = H.docs
  /\ inv' = H.inv
  /\ file_mapping' = H.file_mapping
  /\ path_to_id' = H.path_to_id
  /\ next_id' = H.next_id

\* a file is created and deleted again before the observer has dispatched
\* anything: both events wait in the queue, the file is not there
FsCreateDelete(p) ==
  /\ CanChange
  /\ p \notin DOMAIN fs
  /\ queue' = queue \o <<Event("created", p, FALSE), Event("deleted", p, FALSE)>>
  /\ UNCHANGED <<fs, pc, docs, inv, file_mapping, path_to_id, next_id, res>>
  /\ UNCHANGED triVars
  /\ UNCHANGED concVars
  /\ UNCHANGED applyVars
  /\ UNCHANGED srv
  /\ UNCHANGED ign

\* a file is deleted and created again with a content of its own before the
\* observer has dispatched anything
FsDeleteCreate(p, text) ==
  /\ CanChange
  /\ p \in DOMAIN fs
  /\ fs' = Put(fs, p, text)
  /\ queue' = queue \o <<Event("deleted", p, FALSE), Event("created", p, FALSE)>>
  /\ UNCHANGED <<pc, docs, inv, file_mapping, path_to_id, next_id, res>>
  /\ UNCHANGED triVars
  /\ UNCHANGED concVars
  /\ UNCHANGED applyVars
  /\ UNCHANGED srv
  /\ UNCHANGED ign

\* a dispatch that hands over a created event ahead of the older events
OnCreated_out_of_order ==
  /\ pc = "serving"
  /\ \E i \in 1..Len(queue) :
       /\ queue[i].kind = "created"
       /\ SetHandler(IF queue[i].is_directory THEN Handler
                     ELSE IndexFile(Handler, fs, queue[i].path))
       /\ queue' = SubSeq(queue, 1, i - 1) \o SubSeq(queue, i + 1, Len(queue))
  /\ res' = NoResult
  /\ UNCHANGED <<fs, pc>>
  /\ UNCHANGED triVars
  /\ UNCHANGED concVars
  /\ UNCHANGED applyVars
  /\ UNCHANGED srv
  /\ UNCHANGED ign

\* the observer thread dispatches the oldest event to the handler
OnCreated ==
  /\ pc = "serving" /\ queue # <<>> /\ Head(queue).kind = "created"
  /\ SetHandler(IF Head(queue).is_directory THEN Handler
                ELSE IndexFile(Handler, fs, Head(queue).path))
  /\ queue' = Tail(queue)
  /\ res' = NoResult
  /\ UNCHANGED <<fs, pc>>
  /\ UNCHANGED triVars
  /\ UNCHANGED concVars
  /\ UNCHANGED applyVars
  /\ UNCHANGED srv
  /\ UNCHANGED ign

OnModified ==
  /\ pc = "serving" /\ queue # <<>> /\ Head(queue).kind = "modified"
  /\ SetHandler(IF Head(queue).is_directory THEN Handler
                ELSE IndexFile(Handler, fs, Head(queue).path))
  /\ queue' = Tail(queue)
  /\ res' = NoResult
  /\ UNCHANGED <<fs, pc>>
  /\ UNCHANGED triVars
  /\ UNCHANGED concVars
  /\ UNCHANGED applyVars
  /\ UNCHANGED srv
  /\ UNCHANGED ign

OnDeleted ==
  /\ pc = "serving" /\ queue # <<>> /\ Head(queue).kind = "deleted"
  /\ SetHandler(IF Head(queue).is_directory THEN Handler
                ELSE RemoveFile(Handler, Head(queue).path))
  /\ queue' = Tail(queue)
  /\ res' = NoResult
  /\ UNCHANGED <<fs, pc>>
  /\ UNCHANGED triVars
  /\ UNCHANGED concVars
  /\ UNCHANGED applyVars
  /\ UNCHANGED srv
  /\ UNCHANGED ign

\* the patterns searched for
Patterns ==
  { Regex(FALSE, LitSeq(<<"a","b","c">>)),
    Regex(TRUE,  LitSeq(<<"a","b","c">>)),
    Regex(FALSE, <<Lit("a"), Lit("b"), Lit("c"), AtEnd>>),
    Regex(FALSE, <<Lit("b"), AnyChar>>) }

\* CodeSearchServer.search -> TrigramRegexSearcher.search, as one step
Search(p) ==
  /\ pc \in {"serving", "library"}
  /\ res' = [pattern |-> p, err |-> search([docs |-> docs, inv |-> inv], p).err,
             ids |-> search([docs |-> docs, inv |-> inv], p).ids]
  /\ docs' = search_leaves([docs |-> docs, inv |-> inv], p).docs
  /\ inv' = search_leaves([docs |-> docs, inv |-> inv], p).inv
  /\ UNCHANGED <<fs, queue, pc, file_mapping, path_to_id, next_id>>
  /\ UNCHANGED triVars
  /\ UNCHANGED concVars
  /\ UNCHANGED applyVars
  /\ UNCHANGED srv
  /\ UNCHANGED ign

Next ==
  \/ Load
  \/ \E p \in Paths : \E text \in TextsFor(p) : FsCreate(p, text)
  \/ \E p \in Paths : \E text \in TextsFor(p) : FsModify(p, text)
  \/ \E p \in Paths : FsDelete(p)
  \/ \E p \in Paths : \E dir \in Ancestors(p) : FsTouchDir(dir)
  \/ OnCreated
  \/ OnModified
  \/ OnDeleted
  \/ \E p \in Patterns : Search(p)

Spec == Init /\ [][Next]_vars

Searcher == [docs |-> docs, inv |-> inv]

Searched == res.err # "none"

\* C2: every stored document whose content has a match of the pattern is in
\* the result of the search
C2_SearchCompleteness ==
  Searched => \A d \in DOMAIN docs : HasMatch(res.pattern, docs[d]) => d \in res.ids

\* C3: a search ends without error and every id it returns is stored, with a
\* content that has a match of the pattern
C3_SearchSoundness ==
  Searched =>
    /\ res.err = ""
    /\ \A d \in res.ids : d \in DOMAIN docs /\ HasMatch(res.pattern, docs[d])

\* a search whose trigram pre-filter let through a document that the regex
\* then rejected, next to one it kept
C3_Witness ==
  /\ Searched
  /\ required_trigrams(res.pattern) # {}
  /\ res.ids # {}
  /\ \E d \in Candidates(Searcher, res.pattern) : d \notin res.ids

(* ------------- the searcher used as a library (as the tests do) ------- *)

\* most documents a library user adds
MaxDocs == 2

LibTexts == {<<"a","b","c">>, <<"A","b","c">>, <<"a","b","c","a">>, <<"a","b">>}

\* the patterns a library user searches: also the empty one and "ab"
LibPatterns == Patterns \cup {Regex(FALSE, <<>>), Regex(FALSE, LitSeq(<<"a","b">>))}

InitLib ==
  /\ TriIdle
  /\ ServeIdle
  /\ IgnIdle
  /\ fs = EmptyDict
  /\ queue = <<>>
  /\ pc = "library"
  /\ docs = EmptyDict
  /\ inv = EmptyDict
  /\ file_mapping = EmptyDict
  /\ path_to_id = EmptyDict
  /\ next_id = 0
  /\ res = NoResult
  /\ ConcIdle
  /\ ApplyIdle

\* searcher.add_document(doc_id, text), called directly
AddDocumentCall(doc_id, text) ==
  /\ pc = "library"
  /\ docs' = add_document(Searcher, doc_id, text).docs
  /\ inv' = add_document(Searcher, doc_id, text).inv
  /\ res' = NoResult
  /\ UNCHANGED <<fs, queue, pc, file_mapping, path_to_id, next_id>>
  /\ UNCHANGED triVars
  /\ UNCHANGED concVars
  /\ UNCHANGED applyVars
  /\ UNCHANGED srv
  /\ UNCHANGED ign

NextLib ==
  \/ \E d \in 1..MaxDocs : \E text \in LibTexts : AddDocumentCall(d, text)
  \/ \E p \in LibPatterns : Search(p)

SpecLib == InitLib /\ [][NextLib]_vars

\* C4: doc_id d is in the posting set of trigram t exactly when d is stored
\* and t is a substring of the stored content of d
C4_IndexContentAgreement ==
  \A t \in (DOMAIN inv) \cup UNION {TrigramsOf(docs[d]) : d \in DOMAIN docs} :
    \A d \in (DOMAIN docs) \cup UNION {inv[u] : u \in DOMAIN inv} :
      (t \in DOMAIN inv /\ d \in inv[t]) <=> (d \in DOMAIN docs /\ IsSubstring(t, docs[d]))

\* C15: a search whose pattern has no required trigram returns exactly the
\* stored documents that match, the short ones included; the empty pattern
\* returns every stored document; on an empty index every search returns
\* nothing
C15_NoPrefilterScansAll ==
  Searched =>
    /\ res.err = ""
    /\ required_trigrams(res.pattern) = {} =>
         res.ids = {d \in DOMAIN docs : HasMatch(res.pattern, docs[d])}
    /\ res.pattern.data = <<>> => res.ids = DOMAIN docs
    /\ docs = EmptyDict => res.ids = {}

\* a search without required trigrams returned a document of two characters
\* and left another document out
C15_Witness ==
  /\ Searched
  /\ required_trigrams(res.pattern) = {}
  /\ \E d \in res.ids : Len(docs[d]) < 3
  /\ \E d \in DOMAIN docs : d \notin res.ids

\* what the index holds, by path: (path, content) pairs and (trigram, path)
\* postings, empty posting sets leaving no trace
PairsOf(dcs, fm) == {<<fm[d], dcs[d]>> : d \in DOMAIN dcs}

PostingsOf(iv, fm) ==
  UNION {{<<t, Get(fm, d, <<"?", d>>)>> : d \in iv[t]} : t \in DOMAIN iv}

\* C6: once every event is processed the index equals, up to doc ids and empty
\* posting sets, the index a fresh index_project of the directory builds
C6_WatcherConvergence ==
  (pc = "serving" /\ queue = <<>>) =>
    \A order \in Orders(Walked(fs, ignore_patterns)) :
      LET fresh == index_project(fs, order, {}) IN
      /\ PairsOf(docs, file_mapping) = PairsOf(fresh.searcher.docs, fresh.file_mapping)
      /\ PostingsOf(inv, file_mapping) = PostingsOf(fresh.searcher.inv, fresh.file_mapping)

(* ------ watcher thread and search thread, statement by statement ------ *)
(* create_file_watcher starts an Observer thread that runs the handler,    *)
(* while CodeSearchServer.search runs on the main thread; neither takes a  *)
(* lock.  Each step below is one access to docs, inv or file_mapping.      *)

\* one change of the directory, with the event the observer queues for it
ChangesOf(tree) ==
  {[tree |-> Put(tree, p, text), ev |-> Event("created", p, FALSE)] :
     p \in Paths \ DOMAIN tree, text \in UNION {TextsFor(q) : q \in Paths}}
  \cup {[tree |-> Put(tree, p, text), ev |-> Event("modified", p, FALSE)] :
     p \in DOMAIN tree, text \in UNION {TextsFor(q) : q \in Paths}}
  \cup {[tree |-> Del(tree, p), ev |-> Event("deleted", p, FALSE)] : p \in DOMAIN tree}

\* a loaded server, idle, whose directory has just changed once
InitConc ==
  /\ TriIdle
  /\ ServeIdle
  /\ IgnIdle
  /\ \E tree \in Trees : \E order \in Orders(Walked(tree, ignore_patterns)) :
     \E c \in ChangesOf(tree) :
       LET r == index_project(tree, order, {}) IN
       /\ c.tree \in Trees
       /\ c.tree # tree
       /\ fs = c.tree
       /\ queue = <<c.ev>>
       /\ docs = r.searcher.docs
       /\ inv = r.searcher.inv
       /\ file_mapping = r.file_mapping
       /\ next_id = IF DOMAIN r.file_mapping = {} THEN 0
                    ELSE SetMax(DOMAIN r.file_mapping) + 1
       /\ path_to_id = [p \in {r.file_mapping[d] : d \in DOMAIN r.file_mapping} |->
                          CHOOSE d \in DOMAIN r.file_mapping : r.file_mapping[d] = p]
       /\ pre = r.searcher
  /\ pc = "serving"
  /\ res = NoResult
  /\ wt = WIdle
  /\ st = SIdle
  /\ ApplyIdle

\* _index_file up to its first write: the ignore test, the read, the lookup
\* of the path and, for a new file, the allocation of its id
BeginIndexFile(rel) ==
  IF should_ignore(rel, ignore_patterns) \/ rel \notin DOMAIN fs
  THEN wt' = WIdle /\ UNCHANGED next_id
  ELSE IF rel \in DOMAIN path_to_id
  THEN /\ wt' = [WIdle EXCEPT !.pc = "discard_old", !.rel = rel,
                   !.file_id = path_to_id[rel], !.text = fs[rel], !.i = 1,
                   !.todo = Get(docs, path_to_id[rel], <<>>)]
       /\ UNCHANGED next_id
  ELSE /\ wt' = [WIdle EXCEPT !.pc = "add_docs", !.rel = rel,
                   !.file_id = next_id, !.text = fs[rel], !.fresh = TRUE]
       /\ next_id' = next_id + 1

WOnCreated ==
  /\ wt.pc = "idle" /\ queue # <<>> /\ Head(queue).kind = "created"
  /\ IF Head(queue).is_directory THEN wt' = WIdle /\ UNCHANGED next_id
     ELSE BeginIndexFile(Head(queue).path)
  /\ queue' = Tail(queue)
  /\ UNCHANGED <<fs, pc, docs, inv, file_mapping, path_to_id, res, pre, st>>
  /\ UNCHANGED triVars
  /\ UNCHANGED applyVars
  /\ UNCHANGED srv
  /\ UNCHANGED ign

WOnModified ==
  /\ wt.pc = "idle" /\ queue # <<>> /\ Head(queue).kind = "modified"
  /\ IF Head(queue).is_directory THEN wt' = WIdle /\ UNCHANGED next_id
     ELSE BeginIndexFile(Head(queue).path)
  /\ queue' = Tail(queue)
  /\ UNCHANGED <<fs, pc, docs, inv, file_mapping, path_to_id, res, pre, st>>
  /\ UNCHANGED triVars
  /\ UNCHANGED applyVars
  /\ UNCHANGED srv
  /\ UNCHANGED ign

\* on_deleted up to its first write
WOnDeleted ==
  /\ wt.pc = "idle" /\ queue # <<>> /\ Head(queue).kind = "deleted"
  /\ wt' = IF ~Head(queue).is_directory /\ Head(queue).path \in DOMAIN path_to_id
           THEN [WIdle EXCEPT !.pc = "del_docs", !.rel = Head(queue).path,
                              !.file_id = path_to_id[Head(queue).path]]
           ELSE WIdle
  /\ queue' = Tail(queue)
  /\ UNCHANGED <<fs, pc, docs, inv, file_mapping, path_to_id, next_id, res, pre, st>>
  /\ UNCHANGED triVars
  /\ UNCHANGED applyVars
  /\ UNCHANGED srv
  /\ UNCHANGED ign

\* if file_id in self.searcher.docs: del self.searcher.docs[file_id]
WDelDocs ==
  /\ wt.pc = "del_docs"
  /\ docs' = Del(docs, wt.file_id)
  /\ wt' = [wt EXCEPT !.pc = "del_inv", !.todo = DOMAIN inv]
  /\ UNCHANGED <<fs, queue, pc, inv, file_mapping, path_to_id, next_id, res, pre, st>>
  /\ UNCHANGED triVars
  /\ UNCHANGED applyVars
  /\ UNCHANGED srv
  /\ UNCHANGED ign

\* for docs in self.searcher.inv.values(): docs.discard(file_id), one posting
\* set per step
WDelInv ==
  /\ wt.pc = "del_inv" /\ wt.todo # {}
  /\ \E t \in wt.todo :
       /\ inv' = [inv EXCEPT ![t] = @ \ {wt.file_id}]
       /\ wt' = [wt EXCEPT !.todo = @ \ {t}]
  /\ UNCHANGED <<fs, queue, pc, docs, file_mapping, path_to_id, next_id, res, pre, st>>
  /\ UNCHANGED triVars
  /\ UNCHANGED applyVars
  /\ UNCHANGED srv
  /\ UNCHANGED ign

\* del self.file_mapping[file_id]; del self.path_to_id[rel_path]
WDelMap ==
  /\ wt.pc = "del_inv" /\ wt.todo = {}
  /\ file_mapping' = Del(file_mapping, wt.file_id)
  /\ path_to_id' = Del(path_to_id, wt.rel)
  /\ wt' = WIdle
  /\ UNCHANGED <<fs, queue, pc, docs, inv, next_id, res, pre, st>>
  /\ UNCHANGED triVars
  /\ UNCHANGED applyVars
  /\ UNCHANGED srv
  /\ UNCHANGED ign

\* the loop over the windows of old_content: inv[tg].discard(file_id); after
\* the last window add_document starts
WDiscardOld ==
  /\ wt.pc = "discard_old"
  /\ IF wt.i <= Len(wt.todo) - 2
     THEN LET tg == Window(wt.todo, wt.i) IN
          /\ inv' = IF tg \in DOMAIN inv
                    THEN [inv EXCEPT ![tg] = @ \ {wt.file_id}] ELSE inv
          /\ wt' = [wt EXCEPT !.i = @ + 1]
     ELSE /\ wt' = [wt EXCEPT !.pc = "add_docs"]
          /\ UNCHANGED inv
  /\ UNCHANGED <<fs, queue, pc, docs, file_mapping, path_to_id, next_id, res, pre, st>>
  /\ UNCHANGED triVars
  /\ UNCHANGED applyVars
  /\ UNCHANGED srv
  /\ UNCHANGED ign

\* add_document: self.docs[doc_id] = text
WAddDocs ==
  /\ wt.pc = "add_docs"
  /\ docs' = Put(docs, wt.file_id, wt.text)
  /\ wt' = [wt EXCEPT !.pc = "add_inv", !.i = 1, !.seen = {}]
  /\ UNCHANGED <<fs, queue, pc, inv, file_mapping, path_to_id, next_id, res, pre, st>>
  /\ UNCHANGED triVars
  /\ UNCHANGED applyVars
  /\ UNCHANGED srv
  /\ UNCHANGED ign

\* add_document: the loop over the windows of text, self.inv[tg].add(doc_id)
WAddInv ==
  /\ wt.pc = "add_inv" /\ wt.i <= Len(wt.text) - 2
  /\ LET tg == Window(wt.text, wt.i) IN
     /\ inv' = IF tg \in wt.seen THEN inv
               ELSE Put(inv, tg, Get(inv, tg, {}) \cup {wt.file_id})
     /\ wt' = [wt EXCEPT !.i = @ + 1, !.seen = @ \cup {tg}]
  /\ UNCHANGED <<fs, queue, pc, docs, file_mapping, path_to_id, next_id, res, pre, st>>
  /\ UNCHANGED triVars
  /\ UNCHANGED applyVars
  /\ UNCHANGED srv
  /\ UNCHANGED ign

\* after add_document: the handler's mappings of a new file
WAddMap ==
  /\ wt.pc = "add_inv" /\ wt.i > Len(wt.text) - 2
  /\ IF wt.fresh
     THEN /\ file_mapping' = Put(file_mapping, wt.file_id, wt.rel)
          /\ path_to_id' = Put(path_to_id, wt.rel, wt.file_id)
     ELSE UNCHANGED <<file_mapping, path_to_id>>
  /\ wt' = WIdle
  /\ UNCHANGED <<fs, queue, pc, docs, inv, next_id, res, pre, st>>
  /\ UNCHANGED triVars
  /\ UNCHANGED applyVars
  /\ UNCHANGED srv
  /\ UNCHANGED ign

WriteDone == wt.pc = "idle" /\ queue = <<>>

\* search: req = required_trigrams(pattern); candidates = set(self.docs) when
\* req is empty
SStart(p) ==
  /\ st.pc = "idle"
  /\ st' = IF required_trigrams(p) = {}
           THEN [SIdle EXCEPT !.pc = "verify", !.pattern = p,
                              !.candidates = DOMAIN docs, !.todo = DOMAIN docs,
                              !.after = WriteDone]
           ELSE [SIdle EXCEPT !.pc = "filter", !.pattern = p,
                              !.todo = required_trigrams(p), !.after = WriteDone]
  /\ UNCHANGED <<fs, queue, pc, docs, inv, file_mapping, path_to_id, next_id, res, pre, wt>>
  /\ UNCHANGED triVars
  /\ UNCHANGED applyVars
  /\ UNCHANGED srv
  /\ UNCHANGED ign

\* for tg in req: ids = self.inv.get(tg, set()); candidates = ids.copy() or
\* candidates & ids; after the loop "if not candidates: return []"
SFilter ==
  /\ st.pc = "filter"
  /\ \E tg \in st.todo :
       LET c == IF st.first THEN Get(inv, tg, {})
                ELSE st.candidates \cap Get(inv, tg, {})
           rest == st.todo \ {tg}
       IN  st' = IF rest # {}
                 THEN [st EXCEPT !.todo = rest, !.first = FALSE, !.candidates = c]
                 ELSE IF c = {}
                 THEN [st EXCEPT !.pc = "done", !.todo = {}, !.candidates = c]
                 ELSE [st EXCEPT !.pc = "verify", !.todo = c, !.first = FALSE,
                                 !.candidates = c]
  /\ UNCHANGED <<fs, queue, pc, docs, inv, file_mapping, path_to_id, next_id, res, pre, wt>>
  /\ UNCHANGED triVars
  /\ UNCHANGED applyVars
  /\ UNCHANGED srv
  /\ UNCHANGED ign

\* [doc for doc in candidates if rx.search(self.docs[doc])], one candidate per
\* step; self.docs[doc] raises KeyError when the document is gone
SVerify ==
  /\ st.pc = "verify" /\ st.todo # {}
  /\ \E d \in st.todo :
       st' = IF d \notin DOMAIN docs
             THEN [st EXCEPT !.pc = "done", !.err = "KeyError", !.ids = {}]
             ELSE [st EXCEPT !.todo = @ \ {d},
                             !.ids = IF HasMatch(st.pattern, docs[d])
                                     THEN @ \cup {d} ELSE @]
  /\ UNCHANGED <<fs, queue, pc, docs, inv, file_mapping, path_to_id, next_id, res, pre, wt>>
  /\ UNCHANGED triVars
  /\ UNCHANGED applyVars
  /\ UNCHANGED srv
  /\ UNCHANGED ign

\* CodeSearchServer.search: file_path = self.file_mapping[doc_id] for each
\* result; a KeyError ends in the response {"error": ...}
SMap ==
  /\ st.pc = "verify" /\ st.todo = {}
  /\ st' = IF \E d \in st.ids : d \notin DOMAIN file_mapping
           THEN [st EXCEPT !.pc = "done", !.err = "KeyError"]
           ELSE [st EXCEPT !.pc = "done"]
  /\ UNCHANGED <<fs, queue, pc, docs, inv, file_mapping, path_to_id, next_id, res, pre, wt>>
  /\ UNCHANGED triVars
  /\ UNCHANGED applyVars
  /\ UNCHANGED srv
  /\ UNCHANGED ign

NextConc ==
  \/ WOnCreated
  \/ WOnModified
  \/ WOnDeleted
  \/ WDelDocs
  \/ WDelInv
  \/ WDelMap
  \/ WDiscardOld
  \/ WAddDocs
  \/ WAddInv
  \/ WAddMap
  \/ \E p \in Patterns : SStart(p)
  \/ SFilter
  \/ SVerify
  \/ SMap

SpecConc == InitConc /\ [][NextConc]_vars

\* C7: whenever a search is reading the index, every id in a posting set is
\* stored and every stored document is in the posting set of each of its
\* trigrams
C7_NoTornIndex ==
  st.pc \in {"filter", "verify"} =>
    /\ \A t \in DOMAIN inv : inv[t] \subseteq DOMAIN docs
    /\ \A d \in DOMAIN docs : \A t \in TrigramsOf(docs[d]) :
         t \in DOMAIN inv /\ d \in inv[t]

\* C8: a finished search ended without error with the result of the same
\* search on the index before the write or on the index after it, and with
\* the one after it when the search began after the write was complete
C8_SearchAtomic ==
  (st.pc = "done" /\ WriteDone) =>
    /\ st.err = ""
    /\ st.ids \in {search(pre, st.pattern).ids, search(Searcher, st.pattern).ids}
    /\ st.after => st.ids = search(Searcher, st.pattern).ids

\* the store and postings after the document of path rel is taken out of the
\* store and of every posting set and text is added under the same id
C17_RemoveThenAdd(rel, text) ==
  LET R == RemoveFile(Handler, rel)
  IN  add_document([docs |-> R.docs, inv |-> R.inv], path_to_id[rel], text)

\* C17: the step that handles a modified event of an indexed file leaves the
\* document store and the posting sets as removing the document and adding
\* the new content under its id would
C17_ReplaceIsRemoveThenAdd ==
  [][(/\ pc = "serving" /\ queue # <<>> /\ queue' = Tail(queue)
      /\ Head(queue).kind = "modified" /\ ~Head(queue).is_directory
      /\ Head(queue).path \in DOMAIN path_to_id
      /\ Head(queue).path \in DOMAIN fs)
     => /\ docs' = C17_RemoveThenAdd(Head(queue).path, fs[Head(queue).path]).docs
        /\ inv' = C17_RemoveThenAdd(Head(queue).path, fs[Head(queue).path]).inv]_vars

\* a replacement has happened: no id was ever removed, and yet a posting set
\* is empty while the document it held has another content
C17_Witness ==
  /\ pc = "serving" /\ queue = <<>>
  /\ DOMAIN docs = 0..(next_id - 1)
  /\ \E t \in DOMAIN inv : inv[t] = {}
  /\ \E d \in DOMAIN docs : TrigramsOf(docs[d]) # {}

\* C18: in every step the ids that come into use are at least the next_id
\* of before and below the next_id of after, next_id never goes down, and an
\* id that stays in use keeps its path: every new id is above all the ids
\* given out before it and no id passes from one document to another
C18_IdsNeverReused ==
  [][/\ next_id' >= next_id
     /\ \A d \in (DOMAIN docs' \cup DOMAIN file_mapping') :
          /\ d < next_id'
          /\ d \notin (DOMAIN docs \cup DOMAIN file_mapping) => d >= next_id
     /\ \A d \in DOMAIN file_mapping \cap DOMAIN file_mapping' :
          file_mapping'[d] = file_mapping[d]]_vars

\* a document was deleted and the document added last holds an id above the
\* deleted one
C18_Witness ==
  /\ pc = "serving" /\ queue = <<>>
  /\ next_id >= 2
  /\ (next_id - 1) \in DOMAIN docs
  /\ (next_id - 2) \notin DOMAIN docs

\* C19: while the server runs the two mappings are inverses of each other,
\* the mapped ids are the stored ids, and every id a search returned is mapped
C19_IdPathBijection ==
  pc = "serving" =>
    /\ DOMAIN file_mapping = DOMAIN docs
    /\ \A d \in DOMAIN file_mapping :
         file_mapping[d] \in DOMAIN path_to_id /\ path_to_id[file_mapping[d]] = d
    /\ \A p \in DOMAIN path_to_id :
         path_to_id[p] \in DOMAIN file_mapping /\ file_mapping[path_to_id[p]] = p
    /\ Searched => res.ids \subseteq DOMAIN file_mapping

\* after a deletion and later additions, a search returned several documents
C19_Witness ==
  /\ pc = "serving" /\ queue = <<>>
  /\ Cardinality(DOMAIN docs) < next_id
  /\ Searched /\ Cardinality(res.ids) >= 2

(* --------- a loaded index, files added to it and removed again -------- *)

\* the server right after CodeSearchServer.initialize, the loaded index and
\* the directory remembered in pre
InitRound ==
  /\ TriIdle
  /\ ServeIdle
  /\ IgnIdle
  /\ ApplyIdle
  /\ fs \in Trees
  /\ queue = <<>>
  /\ pc = "serving"
  /\ res = NoResult
  /\ \E order \in Orders(Walked(fs, ignore_patterns)) :
       LET r == index_project(fs, order, {}) IN
       /\ docs = r.searcher.docs
       /\ inv = r.searcher.inv
       /\ file_mapping = r.file_mapping
       /\ next_id = IF DOMAIN r.file_mapping = {} THEN 0
                    ELSE SetMax(DOMAIN r.file_mapping) + 1
       /\ path_to_id = [p \in {r.file_mapping[d] : d \in DOMAIN r.file_mapping} |->
                          CHOOSE d \in DOMAIN r.file_mapping : r.file_mapping[d] = p]
  /\ wt = WIdle
  /\ st = SIdle
  /\ pre = [docs |-> docs, inv |-> inv, file_mapping |-> file_mapping,
            path_to_id |-> path_to_id, next_id |-> next_id, fs |-> fs]

\* files that were not there at the load appear and disappear again
NextRound ==
  \/ \E p \in Paths \ DOMAIN pre.fs : \E text \in TextsFor(p) : FsCreate(p, text)
  \/ \E p \in Paths \ DOMAIN pre.fs : FsDelete(p)
  \/ OnCreated
  \/ OnDeleted

SpecRound == InitRound /\ [][NextRound]_vars

\* a posting dictionary without its empty posting sets
C16_NonEmpty(iv) == [t \in {u \in DOMAIN iv : iv[u] # {}} |-> iv[t]]

\* C16: once every file added since the load is removed again and the events
\* are processed, the document store, the non-empty posting sets and the two
\* mappings are what they were
C16_AddRemoveRoundTrip ==
  (queue = <<>> /\ fs = pre.fs) =>
    /\ docs = pre.docs
    /\ C16_NonEmpty(inv) = C16_NonEmpty(pre.inv)
    /\ file_mapping = pre.file_mapping
    /\ path_to_id = pre.path_to_id

\* a document was added under a new id and removed, leaving an empty posting
\* set behind in an index that holds other documents
C16_Witness ==
  /\ queue = <<>> /\ fs = pre.fs
  /\ next_id > pre.next_id
  /\ docs # EmptyDict
  /\ \E t \in DOMAIN inv : inv[t] = {} /\ t \notin DOMAIN pre.inv

(* ----------------------- the changeset applicator --------------------- *)
(* apply_all(changes, project_path).  The changeset is modelled after the  *)
(* two re.findall calls: a sequence of blocks [path, hunks, body], path    *)
(* stripped, hunks the (search, replace) pairs found in the block and body *)
(* the block's text.  Python dicts keep insertion order: they are modelled *)
(* as sequences of [path, val] entries.                                    *)

\* most blocks of a changeset
MaxBlocks == 2

\* "search in content" for strings
Contains(content, s) ==
  \E i \in 1..(Len(content) - Len(s) + 1) : SubSeq(content, i, i + Len(s) - 1) = s

RECURSIVE ReplaceFrom(_, _, _, _)
\* content[i..] with every non-overlapping occurrence of a non-empty old
\* replaced by new, scanning from the left
ReplaceFrom(content, i, old, new) ==
  IF i > Len(content) THEN <<>>
  ELSE IF i + Len(old) - 1 <= Len(content) /\ SubSeq(content, i, i + Len(old) - 1) = old
  THEN new \o ReplaceFrom(content, i + Len(old), old, new)
  ELSE <<content[i]>> \o ReplaceFrom(content, i + 1, old, new)

RECURSIVE Interleave(_, _, _)
\* new before every character of content[i..] and after the last one
Interleave(content, i, new) ==
  IF i > Len(content) THEN new
  ELSE new \o <<content[i]>> \o Interleave(content, i + 1, new)

\* a replace that rewrites the first occurrence only, as replace(old, new, 1)
ReplaceAll_first(content, old, new) ==
  IF old = <<>> THEN new \o content
  ELSE IF ~Contains(content, old) THEN content
  ELSE LET i == CHOOSE j \in 1..Len(content) :
                  /\ j + Len(old) - 1 <= Len(content)
                  /\ SubSeq(content, j, j + Len(old) - 1) = old
                  /\ \A m \in 1..(j - 1) : SubSeq(content, m, m + Len(old) - 1) # old
       IN  SubSeq(content, 1, i - 1) \o new
             \o SubSeq(content, i + Len(old), Len(content))

\* content.replace(old, new)
ReplaceAll(content, old, new) ==
  IF old = <<>> THEN Interleave(content, 1, new)
  ELSE ReplaceFrom(content, 1, old, new)

RECURSIVE ApplyHunksFrom(_, _, _)
\* the loop "for search_text, replace_text in blocks" on the in-memory copy:
\* ok is FALSE as soon as a search text is not in the current content
ApplyHunksFrom(content, hunks, k) ==
  IF k > Len(hunks) THEN [ok |-> TRUE, content |-> content]
  ELSE IF ~Contains(content, hunks[k].search) THEN [ok |-> FALSE, content |-> content]
  ELSE ApplyHunksFrom(ReplaceAll(content, hunks[k].search, hunks[k].replace), hunks, k + 1)

RECURSIVE ReplaceHunksFrom(_, _, _)
\* the hunks replaced one after the other with no look at whether the search
\* text is there
ReplaceHunksFrom(content, hunks, k) ==
  IF k > Len(hunks) THEN content
  ELSE ReplaceHunksFrom(ReplaceAll(content, hunks[k].search, hunks[k].replace), hunks, k + 1)

ApplyHunks_unchecked(content, hunks) ==
  [ok |-> TRUE, content |-> ReplaceHunksFrom(content, hunks, 1)]

\* every hunk searched and replaced in the original content, the last one
\* giving the result
ApplyHunks_on_original(content, hunks) ==
  IF \E k \in 1..Len(hunks) : ~Contains(content, hunks[k].search)
  THEN [ok |-> FALSE, content |-> content]
  ELSE [ok |-> TRUE,
        content |-> IF hunks = <<>> THEN content
                    ELSE ReplaceAll(content, hunks[Len(hunks)].search,
                                    hunks[Len(hunks)].replace)]

ApplyHunks(content, hunks) == ApplyHunksFrom(content, hunks, 1)

\* index of the entry of dict d with this path, 0 when there is none
EntryIndex(d, path) ==
  IF \E k \in 1..Len(d) : d[k].path = path
  THEN CHOOSE k \in 1..Len(d) : d[k].path = path
  ELSE 0

\* d[path] = val
DictSet(d, path, val) ==
  IF EntryIndex(d, path) = 0 THEN Append(d, [path |-> path, val |-> val])
  ELSE [d EXCEPT ![EntryIndex(d, path)].val = val]

RECURSIVE ClassifyFrom(_, _, _, _)
\* the first pass of apply_all over the blocks, from block k on
ClassifyFrom(blocks, k, tree, acc) ==
  IF k > Len(blocks) THEN acc
  ELSE LET b == blocks[k] IN
    IF b.path = <<>> THEN [acc EXCEPT !.ok = FALSE]
    ELSE IF b.hunks = <<>>
    THEN IF b.path \in DOMAIN tree THEN [acc EXCEPT !.ok = FALSE]
         ELSE ClassifyFrom(blocks, k + 1, tree,
                [acc EXCEPT !.create = DictSet(acc.create, b.path, b.body)])
    ELSE IF b.path \notin DOMAIN tree THEN [acc EXCEPT !.ok = FALSE]
         ELSE ClassifyFrom(blocks, k + 1, tree,
                [acc EXCEPT !.modify =
                   IF EntryIndex(acc.modify, b.path) = 0
                   THEN Append(acc.modify, [path |-> b.path, val |-> b.hunks])
                   ELSE [acc.modify EXCEPT ![EntryIndex(acc.modify, b.path)].val =
                                             @ \o b.hunks]])

\* a first pass that stops at the offending block and goes on with the
\* blocks sorted before it
Classified_lenient(blocks, tree) ==
  [ClassifyFrom(blocks, 1, tree, [ok |-> TRUE, create |-> <<>>, modify |-> <<>>])
     EXCEPT !.ok = TRUE]

\* the blocks sorted into files_to_create and files_to_modify, or ok = FALSE
Classified(blocks, tree) ==
  IF blocks = <<>> THEN [ok |-> FALSE, create |-> <<>>, modify |-> <<>>]
  ELSE ClassifyFrom(blocks, 1, tree, [ok |-> TRUE, create |-> <<>>, modify |-> <<>>])

FileF == <<"f">>
FileG == <<"g">>

ApplyPaths == {FileF, FileG}

Hunk(s, r) == [search |-> s, replace |-> r]

\* the hunk lists a block may carry
HunkLists ==
  { << Hunk(<<"a">>, <<"b">>) >>,
    << Hunk(<<"a">>, <<"b">>), Hunk(<<"a">>, <<"c">>) >>,
    << Hunk(<<"b">>, <<"c">>), Hunk(<<"c">>, <<"a">>) >>,
    << Hunk(<<"c">>, <<"a">>) >> }

\* the bodies a block without hunks may carry
Bodies == {<<"b","a">>, <<"c">>}

Blocks ==
  {[path |-> p, hunks |-> h, body |-> <<>>] : p \in ApplyPaths \cup {<<>>}, h \in HunkLists}
  \cup {[path |-> p, hunks |-> <<>>, body |-> b] : p \in ApplyPaths \cup {<<>>}, b \in Bodies}

Changesets == UNION {[1..n -> Blocks] : n \in 0..MaxBlocks}

\* the project before the call: each file absent or holding "ab"
ApplyTrees == UNION {[S -> {<<"a","b">>}] : S \in SUBSET ApplyPaths}

\* the files whose read raises and the files whose write raises.  A write
\* raises in open() and leaves the file alone, or (torn) after open() has
\* truncated it, as an encoding error of f.write does; the cause lasts, or
\* (transient) it lies in the new content and a restoring write goes through
Faults ==
  { NoFault, [NoFault EXCEPT !.unreadable = {FileF}] }
  \cup { [unreadable |-> {}, unwritable |-> {p}, transient |-> t, torn |-> r] :
           p \in ApplyPaths, t \in BOOLEAN, r \in BOOLEAN }

\* the directory after a write of content to path p raised
FailedWrite(tree, p) == IF faults.torn THEN Put(tree, p, <<>>) ELSE tree

ApIdle == [pc |-> "idle", files_to_create |-> <<>>, files_to_modify |-> <<>>,
           original_contents |-> <<>>, modified_contents |-> <<>>,
           i |-> 0, ret |-> 0, failed |-> ""]

InitApply ==
  /\ TriIdle
  /\ ServeIdle
  /\ IgnIdle
  /\ ConcIdle
  /\ queue = <<>>
  /\ pc = "apply"
  /\ docs = EmptyDict
  /\ inv = EmptyDict
  /\ file_mapping = EmptyDict
  /\ path_to_id = EmptyDict
  /\ next_id = 0
  /\ res = NoResult
  /\ chg \in Changesets
  /\ fs \in ApplyTrees
  /\ fs0 = fs
  /\ faults \in Faults
  /\ ap = [ApIdle EXCEPT !.pc = "classify"]

Return1(phase) == [ap EXCEPT !.pc = "done", !.ret = 1, !.failed = phase]

\* the first pass: every block is parsed and sorted, or apply_all returns 1
Classify ==
  /\ ap.pc = "classify"
  /\ LET c == Classified(chg, fs) IN
     ap' = IF ~c.ok THEN Return1("classify")
           ELSE [ap EXCEPT !.pc = "create", !.i = 1,
                           !.files_to_create = c.create, !.files_to_modify = c.modify]
  /\ UNCHANGED <<chg, fs, fs0, faults>>
  /\ UNCHANGED <<queue, pc, docs, inv, file_mapping, path_to_id, next_id, res>>
  /\ UNCHANGED triVars
  /\ UNCHANGED concVars
  /\ UNCHANGED srv
  /\ UNCHANGED ign

\* "Create new files first": one file of files_to_create is written, or the
\* write raises and apply_all returns 1
CreateFile ==
  /\ ap.pc = "create" /\ ap.i <= Len(ap.files_to_create)
  /\ LET e == ap.files_to_create[ap.i] IN
     IF e.path \in faults.unwritable
     THEN ap' = Return1("create") /\ fs' = FailedWrite(fs, e.path)
     ELSE ap' = [ap EXCEPT !.i = @ + 1] /\ fs' = Put(fs, e.path, e.val)
  /\ UNCHANGED <<chg, fs0, faults>>
  /\ UNCHANGED <<queue, pc, docs, inv, file_mapping, path_to_id, next_id, res>>
  /\ UNCHANGED triVars
  /\ UNCHANGED concVars
  /\ UNCHANGED srv
  /\ UNCHANGED ign

CreateDone ==
  /\ ap.pc = "create" /\ ap.i > Len(ap.files_to_create)
  /\ ap' = [ap EXCEPT !.pc = "prepare", !.i = 1]
  /\ UNCHANGED <<chg, fs, fs0, faults>>
  /\ UNCHANGED <<queue, pc, docs, inv, file_mapping, path_to_id, next_id, res>>
  /\ UNCHANGED triVars
  /\ UNCHANGED concVars
  /\ UNCHANGED srv
  /\ UNCHANGED ign

\* one file of files_to_modify is read and its hunks are applied to the copy
\* in memory; a failed read or an absent search text returns 1
PrepareFile ==
  /\ ap.pc = "prepare" /\ ap.i <= Len(ap.files_to_modify)
  /\ LET e == ap.files_to_modify[ap.i] IN
     IF e.path \in faults.unreadable \/ e.path \notin DOMAIN fs
     THEN ap' = Return1("prepare")
     ELSE LET r == ApplyHunks(fs[e.path], e.val) IN
          ap' = IF ~r.ok THEN Return1("prepare")
                ELSE [ap EXCEPT !.i = @ + 1,
                       !.original_contents = DictSet(@, e.path, fs[e.path]),
                       !.modified_contents = DictSet(@, e.path, r.content)]
  /\ UNCHANGED <<chg, fs, fs0, faults>>
  /\ UNCHANGED <<queue, pc, docs, inv, file_mapping, path_to_id, next_id, res>>
  /\ UNCHANGED triVars
  /\ UNCHANGED concVars
  /\ UNCHANGED srv
  /\ UNCHANGED ign

PrepareDone ==
  /\ ap.pc = "prepare" /\ ap.i > Len(ap.files_to_modify)
  /\ ap' = [ap EXCEPT !.pc = "write", !.i = 1]
  /\ UNCHANGED <<chg, fs, fs0, faults>>
  /\ UNCHANGED <<queue, pc, docs, inv, file_mapping, path_to_id, next_id, res>>
  /\ UNCHANGED triVars
  /\ UNCHANGED concVars
  /\ UNCHANGED srv
  /\ UNCHANGED ign

\* "Write all modified contents": one file is written, or the write raises
\* and the restoring starts
WriteFile ==
  /\ ap.pc = "write" /\ ap.i <= Len(ap.modified_contents)
  /\ LET e == ap.modified_contents[ap.i] IN
     IF e.path \in faults.unwritable
     THEN ap' = [ap EXCEPT !.pc = "restore", !.i = 1] /\ fs' = FailedWrite(fs, e.path)
     ELSE ap' = [ap EXCEPT !.i = @ + 1] /\ fs' = Put(fs, e.path, e.val)
  /\ UNCHANGED <<chg, fs0, faults>>
  /\ UNCHANGED <<queue, pc, docs, inv, file_mapping, path_to_id, next_id, res>>
  /\ UNCHANGED triVars
  /\ UNCHANGED concVars
  /\ UNCHANGED srv
  /\ UNCHANGED ign

\* every file is written: return 0
WriteDone0 ==
  /\ ap.pc = "write" /\ ap.i > Len(ap.modified_contents)
  /\ ap' = [ap EXCEPT !.pc = "done", !.ret = 0]
  /\ UNCHANGED <<chg, fs, fs0, faults>>
  /\ UNCHANGED <<queue, pc, docs, inv, file_mapping, path_to_id, next_id, res>>
  /\ UNCHANGED triVars
  /\ UNCHANGED concVars
  /\ UNCHANGED srv
  /\ UNCHANGED ign

\* a restoring that writes back only the file whose write raised
RestoreFile_failed_only ==
  /\ ap.pc = "restore" /\ ap.i <= Len(ap.original_contents)
  /\ LET e == ap.original_contents[ap.i] IN
     /\ fs' = IF e.path \in faults.unwritable /\ faults.transient
              THEN Put(fs, e.path, e.val) ELSE fs
     /\ ap' = [ap EXCEPT !.i = @ + 1]
  /\ UNCHANGED <<chg, fs0, faults>>
  /\ UNCHANGED <<queue, pc, docs, inv, file_mapping, path_to_id, next_id, res>>
  /\ UNCHANGED triVars
  /\ UNCHANGED concVars
  /\ UNCHANGED srv
  /\ UNCHANGED ign

\* "Restore all files": one original content is written back; a restoring
\* write that raises is logged and skipped
RestoreFile ==
  /\ ap.pc = "restore" /\ ap.i <= Len(ap.original_contents)
  /\ LET e == ap.original_contents[ap.i] IN
     /\ fs' = IF e.path \in faults.unwritable /\ ~faults.transient
              THEN FailedWrite(fs, e.path)
              ELSE Put(fs, e.path, e.val)
     /\ ap' = [ap EXCEPT !.i = @ + 1]
  /\ UNCHANGED <<chg, fs0, faults>>
  /\ UNCHANGED <<queue, pc, docs, inv, file_mapping, path_to_id, next_id, res>>
  /\ UNCHANGED triVars
  /\ UNCHANGED concVars
  /\ UNCHANGED srv
  /\ UNCHANGED ign

RestoreDone ==
  /\ ap.pc = "restore" /\ ap.i > Len(ap.original_contents)
  /\ ap' = Return1("write")
  /\ UNCHANGED <<chg, fs, fs0, faults>>
  /\ UNCHANGED <<queue, pc, docs, inv, file_mapping, path_to_id, next_id, res>>
  /\ UNCHANGED triVars
  /\ UNCHANGED concVars
  /\ UNCHANGED srv
  /\ UNCHANGED ign

NextApply ==
  \/ Classify
  \/ CreateFile
  \/ CreateDone
  \/ PrepareFile
  \/ PrepareDone
  \/ WriteFile
  \/ WriteDone0
  \/ RestoreFile
  \/ RestoreDone

SpecApply == InitApply /\ [][NextApply]_vars

\* C5: after apply_all has returned failure every file that existed before
\* the call has its content of before, and no file has been added
C5_ChangesetAtomicity ==
  (ap.pc = "done" /\ ap.ret = 1) =>
    /\ \A p \in DOMAIN fs0 : p \in DOMAIN fs /\ fs[p] = fs0[p]
    /\ \A p \in DOMAIN fs : p \in DOMAIN fs0

\* the validation is not over: the blocks are not yet classified, or some
\* file of files_to_modify has not had all its hunks found in its copy
C9_ValidationPending ==
  \/ ap.pc = "classify"
  \/ /\ ap.pc \in {"create", "prepare"}
     /\ Len(ap.original_contents) < Len(ap.files_to_modify)

\* C9: as long as the validation is not over, and after a validation step
\* (classifying a block, reading a file, finding a hunk) has failed, no file
\* has been created or overwritten
C9_ValidationBeforeWriting ==
  (\/ C9_ValidationPending
   \/ (ap.pc = "done" /\ ap.failed \in {"classify", "prepare"})) => fs = fs0

RECURSIVE C10_HunkAbsentFrom(_, _, _)
\* some hunk of the list, from hunk k on, has a search text that is not in
\* the content left by the hunks before it
C10_HunkAbsentFrom(content, hunks, k) ==
  /\ k <= Len(hunks)
  /\ \/ ~Contains(content, hunks[k].search)
     \/ C10_HunkAbsentFrom(ReplaceAll(content, hunks[k].search, hunks[k].replace),
                           hunks, k + 1)

\* the changeset holds only hunks, on files that exist
C10_HunksOnly ==
  /\ chg # <<>>
  /\ \A k \in 1..Len(chg) : chg[k].hunks # <<>> /\ chg[k].path \in DOMAIN fs0

\* the hunks of file p, in changeset order
RECURSIVE C10_HunksOf(_, _)
C10_HunksOf(p, k) ==
  IF k > Len(chg) THEN <<>>
  ELSE (IF chg[k].path = p THEN chg[k].hunks ELSE <<>>) \o C10_HunksOf(p, k + 1)

\* C10: a changeset of hunks on existing files, one of whose search texts is
\* absent when its hunk is applied, returns 1 and leaves every file as it was
C10_AbsentSearchFails ==
  (/\ ap.pc = "done"
   /\ C10_HunksOnly
   /\ \E p \in DOMAIN fs0 : C10_HunkAbsentFrom(fs0[p], C10_HunksOf(p, 1), 1))
  => (ap.ret = 1 /\ fs = fs0)

\* a finished call whose first hunk on a file matched and whose later hunk on
\* the same file did not
C10_Witness ==
  /\ ap.pc = "done"
  /\ C10_HunksOnly
  /\ faults.unreadable = {}
  /\ \E p \in DOMAIN fs0 :
       /\ Len(C10_HunksOf(p, 1)) > 1
       /\ Contains(fs0[p], C10_HunksOf(p, 1)[1].search)
       /\ C10_HunkAbsentFrom(fs0[p], C10_HunksOf(p, 1), 1)

\* block k has no path, or hunks for a file that is not there, or a raw
\* body for a file that is
C20_Offending(k) ==
  \/ chg[k].path = <<>>
  \/ chg[k].hunks # <<>> /\ chg[k].path \notin DOMAIN fs0
  \/ chg[k].hunks = <<>> /\ chg[k].path \in DOMAIN fs0

\* C20: a changeset with an offending block, wherever it stands, returns 1
\* and leaves the directory as it was
C20_ClassificationAllOrNothing ==
  (ap.pc = "done" /\ \E k \in 1..Len(chg) : C20_Offending(k)) =>
    (ap.ret = 1 /\ fs = fs0)

\* a finished call whose first block was a valid create or modify block and
\* whose last block offended
C20_Witness ==
  /\ ap.pc = "done"
  /\ Len(chg) >= 2
  /\ ~C20_Offending(1)
  /\ C20_Offending(Len(chg))
  /\ faults.unwritable = {} /\ faults.unreadable = {}

RECURSIVE C21_InOrder(_, _, _)
\* the content left by the hunks from hunk k on, each one replacing its search
\* text in what the hunks before it left
C21_InOrder(content, hunks, k) ==
  IF k > Len(hunks) THEN content
  ELSE C21_InOrder(ReplaceAll(content, hunks[k].search, hunks[k].replace), hunks, k + 1)

\* the body of the last block without hunks that names file p
C21_BodyOf(p) ==
  chg[CHOOSE k \in 1..Len(chg) :
        /\ chg[k].path = p /\ chg[k].hunks = <<>>
        /\ \A j \in (k + 1)..Len(chg) : ~(chg[j].path = p /\ chg[j].hunks = <<>>)].body

\* C21: after apply_all has returned 0, every file named by a block with hunks
\* holds its content of before with all its hunks applied in changeset order,
\* each search text having been present in what the hunks before it left, and
\* every file named by a block without hunks exists and holds the block body
C21_SuccessPostcondition ==
  (ap.pc = "done" /\ ap.ret = 0) =>
    \A k \in 1..Len(chg) :
      LET p == chg[k].path IN
      /\ p \in DOMAIN fs
      /\ chg[k].hunks # <<>> =>
           /\ p \in DOMAIN fs0
           /\ ~C10_HunkAbsentFrom(fs0[p], C10_HunksOf(p, 1), 1)
           /\ fs[p] = C21_InOrder(fs0[p], C10_HunksOf(p, 1), 1)
      /\ chg[k].hunks = <<>> => (p \notin DOMAIN fs0 /\ fs[p] = C21_BodyOf(p))

\* a call that returned 0 after it created a file and changed another with two
\* hunks, the second of which searched a text that only the first one put there
C21_Witness ==
  /\ ap.pc = "done" /\ ap.ret = 0
  /\ \E k \in 1..Len(chg) : chg[k].hunks = <<>>
  /\ \E p \in DOMAIN fs0 :
       /\ Len(C10_HunksOf(p, 1)) > 1
       /\ ~Contains(fs0[p], C10_HunksOf(p, 1)[2].search)
       /\ fs[p] # fs0[p]

\* the files named by a block with hunks
C22_ModifyFiles == {chg[k].path : k \in {j \in 1..Len(chg) : chg[j].hunks # <<>>}}

\* C22: after a write of new content has raised and the restoring is over,
\* apply_all has returned 1 and every modify file whose restoring write went
\* through holds the content it had before the call
C22_RollbackOnWriteFailure ==
  (ap.pc = "done" /\ ap.failed = "write") =>
    /\ ap.ret = 1
    /\ \A p \in C22_ModifyFiles :
         (faults.transient \/ p \notin faults.unwritable) =>
           (p \in DOMAIN fs /\ fs[p] = fs0[p])

\* a finished call whose first modify file had been overwritten with a new
\* content when the write of the second raised, every restoring write going
\* through
C22_Witness ==
  /\ ap.pc = "done" /\ ap.failed = "write"
  /\ faults.transient /\ faults.torn
  /\ Len(ap.modified_contents) = 2
  /\ ap.modified_contents[2].path \in faults.unwritable
  /\ ap.modified_contents[1].val # ap.original_contents[1].val
  /\ C22_ModifyFiles = DOMAIN fs0

\* a fresh load keeps the path: neither it nor a directory above it is
\* ignored
C28_LoaderKeeps(path) ==
  /\ ~should_ignore(path, ignore_patterns)
  /\ \A k \in 1..Len(path) :
       path[k] = "/" => ~should_ignore(SubSeq(path, 1, k - 1), ignore_patterns)

\* the observer hands a created or modified event of an existing file to the
\* handler
C28_FileEvent ==
  /\ pc = "serving" /\ queue # <<>> /\ queue' = Tail(queue)
  /\ Head(queue).kind \in {"created", "modified"} /\ ~Head(queue).is_directory
  /\ Head(queue).path \in DOMAIN fs

\* C28: the file of a created or modified event is in the index after the
\* event exactly when a fresh load keeps it
C28_WatcherAgreesWithLoader ==
  [][C28_FileEvent =>
       (Head(queue).path \in DOMAIN path_to_id' <=> C28_LoaderKeeps(Head(queue).path))]_vars

\* the posting sets agree on every document but d
C29_OthersKept(d) ==
  \A t \in (DOMAIN inv) \cup (DOMAIN inv') :
    Get(inv', t, {}) \ {d} = Get(inv, t, {}) \ {d}

\* C29: a created or modified event of a file that is read and not ignored:
\* when its path is indexed, the content and the postings under its id are
\* those of the new content, and next_id, both mappings, the other contents
\* and the other postings stay; when it is not, next_id is the one new id,
\* mapped to and from the path, and nothing else changes
C29_UpdatesKeepId ==
  [][(C28_FileEvent /\ ~should_ignore(Head(queue).path, ignore_patterns)) =>
       LET rel == Head(queue).path IN
       IF rel \in DOMAIN path_to_id
       THEN LET d == path_to_id[rel] IN
            /\ next_id' = next_id
            /\ file_mapping' = file_mapping /\ path_to_id' = path_to_id
            /\ docs' = Put(docs, d, fs[rel]) /\ DOMAIN docs' = DOMAIN docs
            /\ \A t \in DOMAIN inv' : d \in inv'[t] <=> t \in TrigramsOf(fs[rel])
            /\ TrigramsOf(fs[rel]) \subseteq DOMAIN inv'
            /\ C29_OthersKept(d)
       ELSE /\ next_id' = next_id + 1
            /\ next_id \notin (DOMAIN docs) \cup (DOMAIN file_mapping)
            /\ next_id \notin UNION {inv[t] : t \in DOMAIN inv}
            /\ file_mapping' = Put(file_mapping, next_id, rel)
            /\ path_to_id' = Put(path_to_id, rel, next_id)
            /\ docs' = Put(docs, next_id, fs[rel])
            /\ \A t \in DOMAIN inv' : next_id \in inv'[t] <=> t \in TrigramsOf(fs[rel])
            /\ C29_OthersKept(next_id)]_vars

\* a file was updated under its id beside another document: no id was ever
\* removed, two documents are stored, and a posting set the update emptied
\* is still there
C29_Witness ==
  /\ pc = "serving" /\ queue = <<>>
  /\ DOMAIN docs = 0..(next_id - 1) /\ next_id >= 2
  /\ DOMAIN file_mapping = DOMAIN docs
  /\ \E t \in DOMAIN inv : inv[t] = {}

(* ------------- a loaded index and every event of the watcher ---------- *)

\* the directory changes under the running watcher: new files appear, files
\* are modified and deleted, directories are made, touched and removed, and
\* the handler takes each event
NextEvents ==
  \/ \E p \in Paths \ DOMAIN pre.fs : \E text \in TextsFor(p) : FsCreate(p, text)
  \/ \E p \in Paths : \E text \in TextsFor(p) : FsModify(p, text)
  \/ \E p \in Paths : FsDelete(p)
  \/ \E p \in Paths : \E dir \in Ancestors(p) :
       \E kind \in {"created", "modified", "deleted"} : FsDirEvent(kind, dir)
  \/ OnCreated
  \/ OnModified
  \/ OnDeleted

SpecEvents == InitRound /\ [][NextEvents]_vars

\* the handler takes an event it discards: a directory event, a created or
\* modified event of an ignored path, a deleted event of a path not indexed
C30_Discarded ==
  /\ pc = "serving" /\ queue # <<>> /\ queue' = Tail(queue)
  /\ \/ Head(queue).is_directory
     \/ /\ Head(queue).kind \in {"created", "modified"}
        /\ should_ignore(Head(queue).path, ignore_patterns)
     \/ /\ Head(queue).kind = "deleted"
        /\ Head(queue).path \notin DOMAIN path_to_id

\* C30: a discarded event leaves the documents, the posting sets, both
\* mappings and next_id as they were
C30_DiscardedEventsNoEffect ==
  [][C30_Discarded =>
       UNCHANGED <<docs, inv, file_mapping, path_to_id, next_id>>]_vars

\* a hidden file that was not there at the load is there, its created event
\* is handled, and the index holding documents is the loaded one
C30_Witness ==
  /\ pc = "serving" /\ queue = <<>>
  /\ FileHid \in DOMAIN fs /\ FileHid \notin DOMAIN pre.fs
  /\ docs # EmptyDict
  /\ docs = pre.docs /\ inv = pre.inv /\ next_id = pre.next_id
  /\ file_mapping = pre.file_mapping /\ path_to_id = pre.path_to_id

(* ------------ a loaded index and files whose read comes to fail ------- *)

\* the files whose permissions change
ReadPaths == {FileA, FileB}

\* files appear, change and disappear under the running watcher, and the
\* read of a file fails for a while
NextRead ==
  \/ \E p \in ReadPaths \ DOMAIN pre.fs : \E text \in TextsFor(p) : FsCreate(p, text)
  \/ \E p \in ReadPaths : \E text \in TextsFor(p) : FsModify(p, text)
  \/ \E p \in ReadPaths : FsDelete(p)
  \/ \E p \in ReadPaths : FsChmod(p)
  \/ OnCreated
  \/ OnModified
  \/ OnDeleted

SpecRead == InitRound /\ [][NextRead]_vars

\* the handler takes a created or modified event of a path that is not
\* ignored, and the read of the file fails
C31_ReadFails ==
  /\ pc = "serving" /\ queue # <<>> /\ queue' = Tail(queue)
  /\ Head(queue).kind \in {"created", "modified"} /\ ~Head(queue).is_directory
  /\ ~should_ignore(Head(queue).path, ignore_patterns)
  /\ Head(queue).path \notin DOMAIN fs \/ Head(queue).path \in faults.unreadable

\* C31: a created or modified event whose read fails leaves docs, inv, both
\* mappings and next_id as they were, and the content stored for an indexed
\* path is still found by a search for it
C31_ReadFailureChangesNothing ==
  [][C31_ReadFails =>
       /\ UNCHANGED <<docs, inv, file_mapping, path_to_id, next_id>>
       /\ Head(queue).path \in DOMAIN path_to_id =>
            LET d == path_to_id[Head(queue).path] IN
            /\ d \in DOMAIN docs'
            /\ d \in search([docs |-> docs', inv |-> inv'],
                            Regex(FALSE, LitSeq(docs'[d]))).ids]_vars

\* an indexed file cannot be read, its event is handled, and the index still
\* holds the content it had before the file was changed
C31_Witness ==
  /\ pc = "serving" /\ queue = <<>>
  /\ \E p \in DOMAIN path_to_id :
       /\ p \in faults.unreadable
       /\ p \in DOMAIN fs
       /\ docs[path_to_id[p]] # fs[p]

(* -------- a loaded index and pairs of events waiting in the queue ------ *)

\* the files created and deleted in quick succession
OrderPaths == {FileA, FileB}

\* a file comes and goes, or goes and comes back, faster than the observer
\* dispatches; the handler takes the events one by one
NextOrder ==
  \/ \E p \in OrderPaths : FsCreateDelete(p)
  \/ \E p \in OrderPaths : \E text \in TextsFor(p) : FsDeleteCreate(p, text)
  \/ OnCreated
  \/ OnDeleted

SpecOrder == InitRound /\ [][NextOrder]_vars

\* the index holds path p exactly when the file is there, with its content
C32_InStep(p) ==
  IF p \in DOMAIN fs
  THEN /\ p \in DOMAIN path_to_id
       /\ path_to_id[p] \in DOMAIN docs
       /\ docs[path_to_id[p]] = fs[p]
       /\ file_mapping[path_to_id[p]] = p
  ELSE p \notin DOMAIN path_to_id

\* C32: the handler takes the oldest event and is done with it before the
\* next: after a deleted event the path is absent from the index, after a
\* created event whose file is read the path is there with the content read,
\* and once created-deleted and deleted-created pairs are all handled the
\* index holds the path exactly when the later event of the pair was created
C32_ArrivalOrder ==
  [][(pc = "serving" /\ queue # <<>> /\ Len(queue') < Len(queue)) =>
       LET e == Head(queue) IN
       /\ queue' = Tail(queue)
       /\ e.kind = "deleted" => e.path \notin DOMAIN path_to_id'
       /\ (e.kind = "created" /\ e.path \in DOMAIN fs) =>
            /\ e.path \in DOMAIN path_to_id'
            /\ docs'[path_to_id'[e.path]] = fs[e.path]
       /\ queue' = <<>> => \A p \in OrderPaths : C32_InStep(p)']_vars

\* a file of the load was deleted and created again with another content,
\* both events are handled: it is indexed under a new id with the content
\* read at the created event
C32_Witness ==
  /\ pc = "serving" /\ queue = <<>>
  /\ \E p \in OrderPaths :
       /\ p \in DOMAIN pre.path_to_id /\ p \in DOMAIN path_to_id
       /\ path_to_id[p] # pre.path_to_id[p]
       /\ docs[path_to_id[p]] = fs[p]
       /\ fs[p] # pre.fs[p]

(* ---------- the searcher as a library, every outcome of a search ------- *)

\* the patterns searched: those of the library user and two that re.compile
\* rejects, one of them with a required trigram
QueryPatterns ==
  LibPatterns \cup
    { ParseRegex(Regex(FALSE, LitSeq(<<"a","b","c">>) \o
                 <<AssertBehind(<<MaxRepeat(0, MAXREPEAT, <<Lit("b")>>)>>)>>)),
      ParseRegex(Regex(FALSE, <<Lit("b"),
                 AssertBehind(<<MaxRepeat(0, MAXREPEAT, <<Lit("b")>>)>>)>>)) }

NextQuery ==
  \/ \E d \in 1..MaxDocs : \E text \in LibTexts : AddDocumentCall(d, text)
  \/ \E p \in QueryPatterns : Search(p)

SpecQuery == InitLib /\ [][NextQuery]_vars

\* C35: a step that ends with the outcome of a search, whether ids, no id
\* or an error, leaves docs and inv as they were; no posting set appears for
\* a required trigram that had none
C35_SearchReadOnly ==
  [][Searched' => (docs' = docs /\ inv' = inv /\ DOMAIN inv' = DOMAIN inv)]_vars

\* a search of a non-empty index for a pattern one of whose required
\* trigrams has no posting set came back empty, and the trigram still has none
C35_Witness ==
  /\ Searched /\ res.err = "" /\ res.ids = {}
  /\ docs # EmptyDict
  /\ \E t \in required_trigrams(res.pattern) : t \notin DOMAIN inv

(* ------------------ hunks as they are written in a block ------------- *)
(* The text of a block is a sequence of characters in which each sentinel  *)
(* line stands as one element.  apply_all finds the hunks in it with       *)
(* search_replace_pattern and replaces them in the file.                   *)

\* most hunks written in a block
MaxHunks == 2

SearchLine  == "<<<<<<< SEARCH"
DividerLine == "======="
ReplaceLine == ">>>>>>> REPLACE"

\* the least index >= i at which pat stands in text, 0 when there is none
FindFrom(text, i, pat) ==
  LET at == {j \in i..(Len(text) - Len(pat) + 1) : SubSeq(text, j, j + Len(pat) - 1) = pat}
  IN  IF at = {} THEN 0 ELSE CHOOSE j \in at : \A m \in at : j <= m

RECURSIVE search_replace_blocks(_, _)
\* re.findall(search_replace_pattern, content, re.DOTALL) from index i: the
\* pattern '<<<<<<< SEARCH\n(.*?)\n=======\n(.*?)>>>>>>> REPLACE', both
\* groups as short as can be
search_replace_blocks(text, i) ==
  LET a == FindFrom(text, i, <<SearchLine, "\n">>)
      b == IF a = 0 THEN 0 ELSE FindFrom(text, a + 2, <<"\n", DividerLine, "\n">>)
      c == IF b = 0 THEN 0 ELSE FindFrom(text, b + 3, <<ReplaceLine>>)
  IN  IF c = 0 THEN <<>>
      ELSE << Hunk(SubSeq(text, a + 2, b - 1), SubSeq(text, b + 3, c - 1)) >>
             \o search_replace_blocks(text, c + 1)

RECURSIVE LinesText(_, _)
\* the lines, each with its line terminator
LinesText(lines, k) ==
  IF k > Len(lines) THEN <<>> ELSE <<lines[k], "\n">> \o LinesText(lines, k + 1)

\* a hunk as it is written: the search lines and the replace lines between
\* the three sentinel lines
WrittenHunk(search_lines, replace_lines) ==
  <<SearchLine, "\n">> \o LinesText(search_lines, 1) \o <<DividerLine, "\n">>
    \o LinesText(replace_lines, 1) \o <<ReplaceLine, "\n">>

\* the lines written in a hunk, one character a line
HunkLines == { <<"a">>, <<"b">>, <<"a","a">> }

WrittenHunks == {WrittenHunk(s, r) : s \in HunkLines, r \in HunkLines}

RECURSIVE Concat(_, _)
Concat(texts, k) == IF k > Len(texts) THEN <<>> ELSE texts[k] \o Concat(texts, k + 1)

\* the texts of a block: up to MaxHunks hunks one after the other
WrittenBodies ==
  {Concat(hs, 1) : hs \in UNION {[1..n -> WrittenHunks] : n \in 1..MaxHunks}}

\* the contents of the file before the call
HunkContents ==
  { <<"a","\n","b","\n">>, <<"a","\n","a","\n","a","\n">>, <<"b","\n","a">>, <<"b","\n">> }

\* apply_all is called with one block for the file f
InitHunk ==
  /\ TriIdle
  /\ ServeIdle
  /\ IgnIdle
  /\ ConcIdle
  /\ queue = <<>>
  /\ pc = "apply"
  /\ docs = EmptyDict
  /\ inv = EmptyDict
  /\ file_mapping = EmptyDict
  /\ path_to_id = EmptyDict
  /\ next_id = 0
  /\ res = NoResult
  /\ \E body \in WrittenBodies :
       chg = << [path |-> FileF, hunks |-> search_replace_blocks(body, 1), body |-> body] >>
  /\ \E content \in HunkContents : fs = [q \in {FileF} |-> content]
  /\ fs0 = fs
  /\ faults = NoFault
  /\ ap = [ApIdle EXCEPT !.pc = "classify"]

NextHunk ==
  \/ Classify
  \/ CreateDone
  \/ PrepareFile
  \/ PrepareDone
  \/ WriteFile
  \/ WriteDone0

SpecHunk == InitHunk /\ [][NextHunk]_vars

\* apply_all has returned 0
C36_Applied == ap.pc = "done" /\ ap.ret = 0

\* the blocks whose hunks are each written with the same lines in the search
\* part and in the replace part
C36_SameLines ==
  {Concat(hs, 1) :
     hs \in UNION {[1..n -> {WrittenHunk(s, s) : s \in HunkLines}] : n \in 1..MaxHunks}}

\* C36: hunks whose replace lines are their search lines leave the file as
\* it was, byte for byte
C36_SameTextKeepsFile ==
  (C36_Applied /\ chg[1].body \in C36_SameLines) => fs[FileF] = fs0[FileF]

\* the indices at which old stands in content
C37_Occurrences(content, old) ==
  {j \in 1..(Len(content) - Len(old) + 1) : SubSeq(content, j, j + Len(old) - 1) = old}

RECURSIVE C37_Rewritten(_, _, _)
\* content cut at the first occurrence of old: what stands before it, new,
\* and the rest rewritten in the same way
C37_Rewritten(content, old, new) ==
  IF C37_Occurrences(content, old) = {} THEN content
  ELSE LET j == CHOOSE x \in C37_Occurrences(content, old) :
                  \A y \in C37_Occurrences(content, old) : x <= y
       IN  SubSeq(content, 1, j - 1) \o new
             \o C37_Rewritten(SubSeq(content, j + Len(old), Len(content)), old, new)

RECURSIVE C37_AllHunks(_, _, _)
\* the hunks from the k-th on, each rewriting the content the one before left
C37_AllHunks(content, hunks, k) ==
  IF k > Len(hunks) THEN content
  ELSE C37_AllHunks(C37_Rewritten(content, hunks[k].search, hunks[k].replace), hunks, k + 1)

\* C37: after a successful call the file is its content of before with, for
\* each hunk in turn, every occurrence of the search text that does not
\* overlap an earlier one replaced, from left to right
C37_EveryOccurrence ==
  C36_Applied => fs[FileF] = C37_AllHunks(fs0[FileF], chg[1].hunks, 1)

\* one hunk whose search text stood three times in the file, and each of
\* the three is rewritten
C37_Witness ==
  /\ C36_Applied
  /\ Len(chg[1].hunks) = 1
  /\ Len(chg[1].hunks[1].search) = 1
  /\ Cardinality(C37_Occurrences(fs0[FileF], chg[1].hunks[1].search)) = 3
  /\ C37_Occurrences(fs[FileF], chg[1].hunks[1].search) = {}
  /\ Len(fs[FileF]) = Len(fs0[FileF]) + 3 * (Len(chg[1].hunks[1].replace) - 1)

(* --------------------- the loader used as a library -------------------- *)

\* index_project(project_path, watch) called on a project some of whose
\* files cannot be read
InitLoad ==
  /\ TriIdle
  /\ ServeIdle
  /\ IgnIdle
  /\ ConcIdle
  /\ chg = <<>>
  /\ ap = ApIdle
  /\ fs0 = EmptyDict
  /\ faults \in {[NoFault EXCEPT !.unreadable = U] : U \in SUBSET {FileA, FileB}}
  /\ fs \in Trees
  /\ queue = <<>>
  /\ pc = "init"
  /\ docs = EmptyDict
  /\ inv = EmptyDict
  /\ file_mapping = EmptyDict
  /\ path_to_id = EmptyDict
  /\ next_id = 0
  /\ res = NoResult

\* index_project as one call: the searcher and the mapping it returns, and
\* with watch the observer of create_file_watcher over a new handler
IndexProjectCall(watch) ==
  /\ pc = "init"
  /\ \E order \in Orders(Walked(fs, ignore_patterns)) :
       LET r == index_project(fs, order, faults.unreadable) IN
       /\ docs' = r.searcher.docs
       /\ inv' = r.searcher.inv
       /\ file_mapping' = r.file_mapping
       /\ next_id' = IF ~watch \/ DOMAIN r.file_mapping = {} THEN 0
                     ELSE SetMax(DOMAIN r.file_mapping) + 1
       /\ path_to_id' = IF ~watch THEN EmptyDict
                        ELSE [p \in {r.file_mapping[d] : d \in DOMAIN r.file_mapping} |->
                                CHOOSE d \in DOMAIN r.file_mapping : r.file_mapping[d] = p]
  /\ pc' = "loaded"
  /\ srv' = [srv EXCEPT !.observer = IF watch THEN "running" ELSE "none"]
  /\ UNCHANGED <<fs, queue, res>>
  /\ UNCHANGED triVars
  /\ UNCHANGED concVars
  /\ UNCHANGED applyVars
  /\ UNCHANGED ign

NextLoad == \E watch \in BOOLEAN : IndexProjectCall(watch)

SpecLoad == InitLoad /\ [][NextLoad]_vars

\* the files the walk reaches and keeps: neither the file nor a directory
\* above it is ignored
C25_Kept ==
  {p \in DOMAIN fs :
     /\ ~should_ignore(p, ignore_patterns)
     /\ \A k \in 1..Len(p) : p[k] = "/" => ~should_ignore(SubSeq(p, 1, k - 1), ignore_patterns)}

\* C25: index_project without watch returns a mapping from the ids 0..n-1,
\* one for one, onto the kept files that can be read, the searcher stores
\* each file's content under its id and posts no other id, and there is no
\* observer
C25_LoaderResult ==
  (pc = "loaded" /\ srv.observer = "none") =>
    LET read == C25_Kept \ faults.unreadable IN
    /\ {file_mapping[d] : d \in DOMAIN file_mapping} = read
    /\ DOMAIN file_mapping = 0..(Cardinality(read) - 1)
    /\ DOMAIN docs = DOMAIN file_mapping
    /\ \A d \in DOMAIN docs : docs[d] = fs[file_mapping[d]]
    /\ \A u \in DOMAIN inv : inv[u] \subseteq DOMAIN file_mapping
    /\ path_to_id = EmptyDict

\* a load without watch that skipped an unreadable file and indexed a file
\* after it, next to an ignored file and a file under an ignored directory
C25_Witness ==
  /\ pc = "loaded" /\ srv.observer = "none"
  /\ faults.unreadable = {FileA}
  /\ DOMAIN fs = Paths
  /\ DOMAIN file_mapping = {0}

(* --------------------------- the ignore predicate ---------------------- *)
(* should_ignore under the patterns of a project that has a .gitignore:   *)
(* the file is read at the load, the hidden-component test comes before    *)
(* any pattern.                                                            *)

\* most lines of the .gitignore
MaxIgnoreLines == 2

FileGitIgnore == <<".","g","i","t","i","g","n","o","r","e">>
FileHidDir    == <<".","d","/","a">>

RECURSIVE SplitLines(_, _, _)
\* the lines of text[k..], cur being the line read so far
SplitLines(text, k, cur) ==
  IF k > Len(text) THEN (IF cur = <<>> THEN <<>> ELSE <<cur>>)
  ELSE IF text[k] = "\n" THEN <<cur>> \o SplitLines(text, k + 1, <<>>)
  ELSE SplitLines(text, k + 1, Append(cur, text[k]))

\* utils.parse_gitignore: no file, no pattern; comments and empty lines are
\* skipped
parse_gitignore(tree) ==
  IF FileGitIgnore \notin DOMAIN tree THEN <<>>
  ELSE SelectSeq(SplitLines(tree[FileGitIgnore], 1, <<>>),
                 LAMBDA line : line # <<>> /\ line[1] # "#")

\* the lines a .gitignore is written with
GitIgnoreLines ==
  { <<"!",".","h">>, <<"!","*">>, <<"!",".","d","/","a">>, <<"a">>, <<"#","a">> }

RECURSIVE JoinLines(_, _)
JoinLines(lines, k) ==
  IF k > Len(lines) THEN <<>> ELSE lines[k] \o <<"\n">> \o JoinLines(lines, k + 1)

\* the contents of the .gitignore
GitIgnoreTexts ==
  {JoinLines(ls, 1) : ls \in UNION {[1..n -> GitIgnoreLines] : n \in 0..MaxIgnoreLines}}

\* the projects: some of three files, with or without a .gitignore
IgnoreTrees ==
  UNION {{[q \in S |-> <<"a","b","c">>]} \cup
         {[q \in S \cup {FileGitIgnore} |->
             IF q = FileGitIgnore THEN g ELSE <<"a","b","c">>] : g \in GitIgnoreTexts}
         : S \in SUBSET {FileA, FileHid, FileHidDir}}

\* the paths should_ignore is asked about: files and directories
IgnorePaths == {FileA, FileHid, FileHidDir, FileGitIgnore, <<".","d">>, <<"b","/",".","h">>}

InitIgnore ==
  /\ TriIdle
  /\ ServeIdle
  /\ ConcIdle
  /\ ApplyIdle
  /\ fs \in IgnoreTrees
  /\ ign = [pc |-> "idle", patterns |-> get_ignore_patterns(parse_gitignore(fs)),
            path |-> <<>>, result |-> FALSE]
  /\ queue = <<>>
  /\ pc = "init"
  /\ docs = EmptyDict
  /\ inv = EmptyDict
  /\ file_mapping = EmptyDict
  /\ path_to_id = EmptyDict
  /\ next_id = 0
  /\ res = NoResult

\* should_ignore(path, project_path, ignore_patterns), called directly
ShouldIgnoreCall(path) ==
  /\ ign' = [ign EXCEPT !.pc = "called", !.path = path,
                        !.result = should_ignore(path, ignore_patterns)]
  /\ UNCHANGED idxVars
  /\ UNCHANGED triVars
  /\ UNCHANGED concVars
  /\ UNCHANGED applyVars
  /\ UNCHANGED srv

\* the load, files appearing and disappearing afterwards, and the watcher's
\* handling of them
NextIgnore ==
  \/ Load
  \/ \E p \in {FileA, FileHid, FileHidDir} : FsCreate(p, <<"a","b","c">>)
  \/ \E p \in {FileA, FileHid, FileHidDir} : FsDelete(p)
  \/ OnCreated
  \/ OnDeleted
  \/ \E path \in IgnorePaths : ShouldIgnoreCall(path)

SpecIgnore == InitIgnore /\ [][NextIgnore]_vars

\* a component of the path begins with "."
C24_Hidden(path) ==
  \E k \in 1..Len(path) : path[k] = "." /\ (k = 1 \/ path[k - 1] = "/")

\* C24: should_ignore is true for every path with a component that begins
\* with ".", whatever the patterns are, and no such path is ever in the index
C24_HiddenAlwaysIgnored ==
  /\ (ign.pc = "called" /\ C24_Hidden(ign.path)) => ign.result
  /\ \A d \in DOMAIN file_mapping : ~C24_Hidden(file_mapping[d])
  /\ \A q \in DOMAIN path_to_id : ~C24_Hidden(q)
  /\ DOMAIN docs \subseteq DOMAIN file_mapping

\* should_ignore was asked about a hidden file that a negation pattern of the
\* .gitignore matches, after the watcher had handled the creation of a file
\* under a hidden directory, one document being indexed
C24_Witness ==
  /\ ign.pc = "called" /\ ign.path = FileHid /\ ign.result
  /\ \E k \in 1..Len(ign.patterns) :
       ign.patterns[k] # <<>> /\ ign.patterns[k][1] = "!"
       /\ fnmatch(ign.path, Tail(ign.patterns[k]))
  /\ pc = "serving" /\ queue = <<>>
  /\ FileHidDir \in DOMAIN fs /\ FileHid \in DOMAIN fs
  /\ DOMAIN docs # {}

(* ----------------------- the order of the patterns -------------------- *)
(* should_ignore called with pattern lists written by hand, the patterns   *)
(* get_ignore_patterns appends behind them.                                *)

\* the lines of the .gitignore: negations, a file pattern, a directory
\* pattern, a pattern with a slash
OrderedLines ==
  { <<"!","a">>, <<"a">>, <<"b","/">>, <<"!","b","/","c">>, <<"b","/","c">>,
    <<"!",".","h">>, <<"!","*",".","o">> }

\* the pattern lists: up to MaxIgnoreLines lines, then the appended ones
OrderedPatterns ==
  {get_ignore_patterns(ls) :
     ls \in UNION {[1..n -> OrderedLines] : n \in 0..MaxIgnoreLines}}

\* the relative paths asked about
OrderedPaths ==
  { <<"a">>, <<"b">>, <<"b","/","c">>, <<"b","/","c","/","d">>, <<"x",".","o">>,
    <<".","h">> }

InitOrdered ==
  /\ TriIdle
  /\ ServeIdle
  /\ ConcIdle
  /\ ApplyIdle
  /\ fs = EmptyDict
  /\ \E pats \in OrderedPatterns :
       ign = [pc |-> "idle", patterns |-> pats, path |-> <<>>, result |-> FALSE]
  /\ queue = <<>>
  /\ pc = "idle"
  /\ docs = EmptyDict
  /\ inv = EmptyDict
  /\ file_mapping = EmptyDict
  /\ path_to_id = EmptyDict
  /\ next_id = 0
  /\ res = NoResult

NextOrdered == \E path \in OrderedPaths : ShouldIgnoreCall(path)

SpecOrdered == InitOrdered /\ [][NextOrdered]_vars

\* the pattern is a negation
C33_Negation(pat) == pat # <<>> /\ pat[1] = "!"

\* the pattern matches the relative path: a negation by its text after "!",
\* a pattern ending in "/" as a directory or as a prefix, any other by
\* fnmatch, or as a prefix when it has a slash and no star
C33_Matches(rel, pat) ==
  IF C33_Negation(pat) THEN fnmatch(rel, Tail(pat))
  ELSE IF pat # <<>> /\ pat[Len(pat)] = "/"
  THEN fnmatch(Append(rel, "/"), pat) \/ StartsWith(rel, pat)
  ELSE \/ fnmatch(rel, pat)
       \/ /\ "/" \in {pat[x] : x \in 1..Len(pat)}
          /\ "*" \notin {pat[x] : x \in 1..Len(pat)}
          /\ StartsWith(rel, pat)

\* the places of the patterns that match the path of the call
C33_Matching == {k \in 1..Len(ign.patterns) : C33_Matches(ign.path, ign.patterns[k])}

\* the place of the first of them
C33_First == CHOOSE k \in C33_Matching : \A j \in C33_Matching : k <= j

\* the first matching pattern decides, and no match means not ignored
C33_FirstDecides ==
  IF C33_Matching = {} THEN ~ign.result
  ELSE ign.result = ~C33_Negation(ign.patterns[C33_First])

\* C33 as stated: for every path, the first pattern that matches decides,
\* and a path without a hidden component that no pattern matches is not
\* ignored
C33_FirstMatchDecides_AsStated ==
  ign.pc = "called" =>
    IF C33_Matching = {} THEN (~C24_Hidden(ign.path) => ~ign.result)
    ELSE ign.result = ~C33_Negation(ign.patterns[C33_First])

\* C33: for a path without a hidden component, the first pattern of the list
\* that matches decides: false for a negation, true for any other, whatever
\* the later patterns are; with no matching pattern the path is not ignored
C33_FirstMatchDecides ==
  (ign.pc = "called" /\ ~C24_Hidden(ign.path)) => C33_FirstDecides

\* a negation matched first and unignored a path that a later pattern
\* ignores, and an ignoring pattern matched first for a path that a later
\* negation matches
C33_Witness ==
  /\ ign.pc = "called" /\ ~C24_Hidden(ign.path)
  /\ \E j, k \in C33_Matching :
       /\ j = C33_First /\ j < k
       /\ C33_Negation(ign.patterns[j]) # C33_Negation(ign.patterns[k])
       /\ ign.result = ~C33_Negation(ign.patterns[j])

(* ---------------------------- the request loop ------------------------ *)
(* main(): the loop "while True" that reads one frame from standard input, *)
(* handles it and writes the responses.  A frame is a header and a body;   *)
(* a JSON object is a record, so that "field in request" is a test of its  *)
(* DOMAIN.  The index is the one the loader built; the observer's events   *)
(* are left to the watcher specification.                                  *)

\* most frames the request loop reads
MaxRequests == 2

\* re.escape(text) as the parser reads it: every character a literal
re_escape(text) == Regex(FALSE, LitSeq(text))

\* a response with a single error string
ErrorResponse ==
  [status |-> "", error |-> TRUE, total_matches |-> 0, returned_matches |-> 0,
   matches |-> {}]

\* a response with a status
StatusResponse(status) ==
  [status |-> status, error |-> FALSE, total_matches |-> 0, returned_matches |-> 0,
   matches |-> {}]

\* max_results of CodeSearchServer.search when the request has none
DefaultMaxResults == 100

\* most match records of a file entry
MatchesPerFile == 5

\* the values of the "max_results" field: a JSON number, null, a string
MaxResultsValues ==
  {[kind |-> "int", n |-> n] : n \in {0, 1, -1}}
    \cup {[kind |-> "null", n |-> 0], [kind |-> "str", n |-> 0]}

\* request.get("max_results", 100)
max_results_of(request) ==
  IF "max_results" \in DOMAIN request THEN request.max_results
  ELSE [kind |-> "int", n |-> DefaultMaxResults]

RECURSIVE finditer(_, _, _)
\* re.finditer(pattern, content) from position i: the matches from left to
\* right, none overlapping another, as records of start, end and line
finditer(r, s, i) ==
  IF i > Len(s) + 1 THEN <<>>
  ELSE LET ends == SeqEnds(r.data, 1, s, i, r.ic) IN
    IF ends = {} THEN finditer(r, s, i + 1)
    ELSE LET e == SetMax(ends) IN
         << [start |-> i - 1, end |-> e - 1,
             line |-> Cardinality({k \in 1..(i - 1) : s[k] = "\n"}) + 1] >>
           \o finditer(r, s, IF e = i THEN i + 1 ELSE e)

\* the pattern CodeSearchServer.search hands to the searcher: escaped unless
\* it is given raw
SearchedPattern(pattern) ==
  IF pattern.raw THEN pattern.regex ELSE re_escape(pattern.text)

\* the sets of ids results[:max_results] may hold, results being a list in
\* the iteration order of a set: a prefix of the length the slice has
ResultSlices(ids, max_results) ==
  LET n == Cardinality(ids)
      len == CASE max_results.kind = "null" -> n
               [] max_results.kind = "int" /\ max_results.n >= 0 ->
                    SetMin(n, max_results.n)
               [] max_results.kind = "int" /\ max_results.n < 0 ->
                    IF n + max_results.n > 0 THEN n + max_results.n ELSE 0
               [] OTHER -> 0
  IN  {T \in SUBSET ids : Cardinality(T) = len}

\* the ids searcher.search returns for the pattern, none when it raises
SearchedIds(S, pattern) ==
  IF ~pattern.str \/ parse_raises(SearchedPattern(pattern).data) THEN {}
  ELSE search(S, ParseRegex(SearchedPattern(pattern))).ids

\* a response that counts the entries it returns as the total and cuts no
\* list of match records
CodeSearchServer_search_uncut(S, fm, tree, pattern, max_results, taken) ==
  IF ~pattern.str THEN ErrorResponse
  ELSE LET w == SearchedPattern(pattern) IN
    IF parse_raises(w.data) THEN ErrorResponse
    ELSE LET r == search(S, ParseRegex(w)) IN
      IF r.err # "" THEN ErrorResponse
      ELSE IF max_results.kind = "str" THEN ErrorResponse
      ELSE IF \E d \in taken : d \notin DOMAIN fm THEN ErrorResponse
      ELSE LET read == {d \in taken : fm[d] \in DOMAIN tree} IN
           [status |-> "success", error |-> FALSE,
            total_matches |-> Cardinality(read),
            returned_matches |-> Cardinality(read),
            matches |-> {[file |-> fm[d],
                          matches |-> finditer(ParseRegex(w), tree[fm[d]], 1)] : d \in read}]

\* CodeSearchServer.search(pattern, max_results) on searcher S and
\* file_mapping fm, taken being the ids of results[:max_results]: the response
CodeSearchServer_search(S, fm, tree, pattern, max_results, taken) ==
  IF ~pattern.str THEN ErrorResponse       \* pattern.startswith raises
  ELSE LET w == SearchedPattern(pattern) IN
    IF parse_raises(w.data) THEN ErrorResponse
    ELSE LET r == search(S, ParseRegex(w)) IN
      IF r.err # "" THEN ErrorResponse
      ELSE IF max_results.kind = "str" THEN ErrorResponse   \* the slice raises
      ELSE IF \E d \in taken : d \notin DOMAIN fm THEN ErrorResponse
      ELSE LET read == {d \in taken : fm[d] \in DOMAIN tree}
               found(d) == finditer(ParseRegex(w), tree[fm[d]], 1)
           IN
           [status |-> "success", error |-> FALSE,
            total_matches |-> Cardinality(r.ids),
            returned_matches |-> Cardinality(read),
            matches |-> {[file |-> fm[d],
                          matches |-> SubSeq(found(d), 1,
                                        SetMin(Len(found(d)), MatchesPerFile))]
                         : d \in read}]

\* utils.apply_all(changes, project_path) with no failing read or write, as
\* one call: the return value and the directory it leaves
apply_all(blocks, tree) ==
  LET c == Classified(blocks, tree) IN
  IF ~c.ok THEN [ret |-> 1, fs |-> tree]
  ELSE LET created == [q \in (DOMAIN tree) \cup {c.create[k].path : k \in 1..Len(c.create)} |->
                         IF EntryIndex(c.create, q) # 0
                         THEN c.create[EntryIndex(c.create, q)].val ELSE tree[q]]
           new(k) == ApplyHunks(created[c.modify[k].path], c.modify[k].val)
       IN  IF \E k \in 1..Len(c.modify) : ~new(k).ok THEN [ret |-> 1, fs |-> created]
           ELSE [ret |-> 0,
                 fs |-> [q \in DOMAIN created |->
                           IF EntryIndex(c.modify, q) # 0
                           THEN new(EntryIndex(c.modify, q)).content ELSE created[q]]]

\* os.path.join(project_path, ".dingllm/run_tests.sh")
TestScript == <<".","d","i","n","g","l","l","m","/","r","u","n","_","t","e","s","t","s",".","s","h">>

\* the directories the server is started on
ServeTrees ==
  { EmptyDict,
    [q \in {FileA} |-> <<"a","b","c">>],
    [q \in {FileA, FileB} |-> IF q = FileA THEN <<"A","b","c">> ELSE <<"a","b","c","a">>],
    [q \in {FileB, TestScript} |-> IF q = FileB THEN <<"a","b","c","a">> ELSE <<"a">>],
    [q \in {FileA, FileB} |-> IF q = FileA THEN <<"a","a","a","a","a","a">>
                              ELSE <<"a","b","\n","a">>] }

\* the values of the "pattern" field
ServePatterns ==
  { [str |-> TRUE, raw |-> FALSE, text |-> <<"a","b","c">>, regex |-> NoRegex],
    [str |-> TRUE, raw |-> TRUE, text |-> <<>>,
     regex |-> Regex(FALSE, <<Lit("b"), AnyChar>>)],
    [str |-> TRUE, raw |-> TRUE, text |-> <<>>,
     regex |-> Regex(FALSE, LitSeq(<<"a","b","c">>) \o <<Unclosed(<<>>)>>)],
    [str |-> TRUE, raw |-> TRUE, text |-> <<>>,
     regex |-> Regex(FALSE, <<Lit("a"), MaxRepeat(2, 1, <<Lit("b")>>)>>)],
    [str |-> TRUE, raw |-> TRUE, text |-> <<>>,
     regex |-> Regex(FALSE, LitSeq(<<"a","b","c">>) \o
                 <<AssertBehind(<<MaxRepeat(0, MAXREPEAT, <<Lit("b")>>)>>)>>)],
    [str |-> TRUE, raw |-> TRUE, text |-> <<>>,
     regex |-> Regex(FALSE, <<Lit("b"),
                 AssertBehind(<<MaxRepeat(0, MAXREPEAT, <<Lit("b")>>)>>)>>)],
    [str |-> TRUE, raw |-> TRUE, text |-> <<>>,
     regex |-> Regex(FALSE, LitSeq(<<"a","b","c">>) \o
                 <<AssertBehind(<<Lit("c")>>)>>)],
    [str |-> FALSE, raw |-> FALSE, text |-> <<>>, regex |-> NoRegex] }

\* the patterns sent with a max_results field
CountedPatterns ==
  { [str |-> TRUE, raw |-> FALSE, text |-> <<"a">>, regex |-> NoRegex],
    [str |-> TRUE, raw |-> FALSE, text |-> <<"a","b","c">>, regex |-> NoRegex] }

\* the values of the "changes" field, after the two re.findall calls
ServeChanges ==
  { [str |-> TRUE, blocks |-> <<>>],
    [str |-> TRUE, blocks |-> << [path |-> FileF, hunks |-> <<>>, body |-> <<"b","a">>] >>],
    [str |-> TRUE, blocks |-> << [path |-> FileB, hunks |-> << Hunk(<<"c">>, <<"b">>) >>,
                                  body |-> <<>>] >>],
    [str |-> FALSE, blocks |-> <<>>] }

\* the JSON objects sent as requests
Requests ==
  { [max_results |-> [kind |-> "int", n |-> 1]], [command |-> "status"], [command |-> "search"],
    [command |-> "apply_changes"], [command |-> "test"], [command |-> "shutdown"] }
  \cup { [command |-> "search", pattern |-> q] : q \in ServePatterns \cup CountedPatterns }
  \cup { [command |-> "search", pattern |-> q, max_results |-> m] :
            q \in CountedPatterns, m \in MaxResultsValues }
  \cup { [command |-> "apply_changes", changes |-> c] : c \in ServeChanges }

\* the bodies of the frames: not JSON, a JSON number, a JSON object
Messages ==
  { [json |-> "invalid"], [json |-> "number"] }
  \cup { [json |-> "object", value |-> r] : r \in Requests }

\* the headers of the frames: "Content-Length: <n>" with the length of the
\* body, no Content-Length line, or one whose value is not a number
Headers == {"length", "none", "not_a_number"}

InitServe ==
  /\ TriIdle
  /\ IgnIdle
  /\ ApplyIdle
  /\ ConcIdle
  /\ fs \in ServeTrees
  /\ queue = <<>>
  /\ pc = "serving"
  /\ res = NoResult
  /\ \E order \in Orders(Walked(fs, ignore_patterns)) :
       LET r == index_project(fs, order, {}) IN
       /\ docs = r.searcher.docs
       /\ inv = r.searcher.inv
       /\ file_mapping = r.file_mapping
       /\ next_id = IF DOMAIN r.file_mapping = {} THEN 0
                    ELSE SetMax(DOMAIN r.file_mapping) + 1
       /\ path_to_id = [p \in {r.file_mapping[d] : d \in DOMAIN r.file_mapping} |->
                          CHOOSE d \in DOMAIN r.file_mapping : r.file_mapping[d] = p]
  /\ srv = [pc |-> "reading", observer |-> "running", n |-> 0, stray |-> FALSE,
            header |-> "", message |-> NoMessage, out |-> <<>>]

\* request["command"], or "none" where the loop finds no command: the body
\* is not JSON, or is no object, or the object lacks the field
Command(message) ==
  IF message.json # "object" THEN "none"
  ELSE IF "command" \notin DOMAIN message.value THEN "none"
  ELSE message.value.command

\* the loop is about to call read_message
Reading == srv.pc = "reading" /\ srv.n < MaxRequests

\* the frame is read whole and json.loads gives an object
Loaded(header, message) ==
  /\ Reading /\ ~srv.stray
  /\ header = "length" /\ message.json = "object"

\* the state of the loop after the frame: the responses written for it
Replied(header, message, out) ==
  [srv EXCEPT !.n = @ + 1, !.header = header, !.message = message, !.out = out]

\* read_message returns None and the loop continues: the frame has no
\* Content-Length line, or the unread body of an earlier frame stands before
\* its header on the same line.  The body stays unread
ReadNothing(header, message) ==
  /\ Reading
  /\ srv.stray \/ header = "none"
  /\ srv' = [Replied(header, message, <<>>) EXCEPT !.stray = TRUE]
  /\ UNCHANGED idxVars
  /\ UNCHANGED triVars
  /\ UNCHANGED concVars
  /\ UNCHANGED applyVars
  /\ UNCHANGED ign

\* int(line[16:]) raises in read_message: "except Exception" of the loop
ReadRaises(header, message) ==
  /\ Reading /\ ~srv.stray
  /\ header = "not_a_number"
  /\ srv' = [Replied(header, message, <<ErrorResponse>>) EXCEPT !.stray = TRUE]
  /\ UNCHANGED idxVars
  /\ UNCHANGED triVars
  /\ UNCHANGED concVars
  /\ UNCHANGED applyVars
  /\ UNCHANGED ign

\* json.loads raises, or gives a value that takes no "command" or holds none,
\* or the command is none of the four
RejectRequest(header, message) ==
  /\ Reading /\ ~srv.stray
  /\ header = "length"
  /\ Command(message) \notin {"search", "apply_changes", "test", "shutdown"}
  /\ srv' = Replied(header, message, <<ErrorResponse>>)
  /\ UNCHANGED idxVars
  /\ UNCHANGED triVars
  /\ UNCHANGED concVars
  /\ UNCHANGED applyVars
  /\ UNCHANGED ign

\* command "search"
SearchRequest(header, message) ==
  /\ Loaded(header, message)
  /\ Command(message) = "search"
  /\ IF "pattern" \notin DOMAIN message.value
     THEN srv' = Replied(header, message, <<ErrorResponse>>)
     ELSE \E taken \in ResultSlices(
                          SearchedIds([docs |-> docs, inv |-> inv], message.value.pattern),
                          max_results_of(message.value)) :
            srv' = Replied(header, message,
                     << CodeSearchServer_search([docs |-> docs, inv |-> inv],
                          file_mapping, fs, message.value.pattern,
                          max_results_of(message.value), taken) >>)
  /\ UNCHANGED idxVars
  /\ UNCHANGED triVars
  /\ UNCHANGED concVars
  /\ UNCHANGED applyVars
  /\ UNCHANGED ign

\* command "apply_changes": re.findall raises on changes that are no string
ApplyRequest(header, message) ==
  /\ Loaded(header, message)
  /\ Command(message) = "apply_changes"
  /\ IF "changes" \notin DOMAIN message.value
     THEN srv' = Replied(header, message, <<ErrorResponse>>) /\ UNCHANGED fs
     ELSE IF ~message.value.changes.str
     THEN srv' = Replied(header, message, <<ErrorResponse>>) /\ UNCHANGED fs
     ELSE LET r == apply_all(message.value.changes.blocks, fs) IN
          /\ fs' = r.fs
          /\ srv' = Replied(header, message,
                      << StatusResponse(IF r.ret = 0 THEN "success" ELSE "error") >>)
  /\ UNCHANGED <<queue, pc, docs, inv, file_mapping, path_to_id, next_id, res>>
  /\ UNCHANGED triVars
  /\ UNCHANGED concVars
  /\ UNCHANGED applyVars
  /\ UNCHANGED ign

\* command "test": without the script an error is written and main returns;
\* with it, each line the script prints is written, then the return code
TestRequest(header, message, lines) ==
  /\ Loaded(header, message)
  /\ Command(message) = "test"
  /\ srv' = IF TestScript \notin DOMAIN fs
            THEN [Replied(header, message, <<ErrorResponse>>) EXCEPT !.pc = "ended"]
            ELSE Replied(header, message,
                   [k \in 1..lines |-> StatusResponse("")] \o <<StatusResponse("success")>>)
  /\ UNCHANGED idxVars
  /\ UNCHANGED triVars
  /\ UNCHANGED concVars
  /\ UNCHANGED applyVars
  /\ UNCHANGED ign

\* command "shutdown": CodeSearchServer.shutdown stops the observer, the
\* response is written and the loop is left
ShutdownRequest(header, message) ==
  /\ Loaded(header, message)
  /\ Command(message) = "shutdown"
  /\ srv' = [Replied(header, message, <<StatusResponse("shutdown")>>)
               EXCEPT !.pc = "ended", !.observer = "stopped"]
  /\ UNCHANGED idxVars
  /\ UNCHANGED triVars
  /\ UNCHANGED concVars
  /\ UNCHANGED applyVars
  /\ UNCHANGED ign

NextServe ==
  \E header \in Headers : \E message \in Messages :
    \/ ReadNothing(header, message)
    \/ ReadRaises(header, message)
    \/ RejectRequest(header, message)
    \/ SearchRequest(header, message)
    \/ ApplyRequest(header, message)
    \/ \E lines \in 0..1 : TestRequest(header, message, lines)
    \/ ShutdownRequest(header, message)

SpecServe == InitServe /\ [][NextServe]_vars

\* the pattern of a search request is a raw regex that the regex engine
\* rejects, when it is parsed or when it is compiled
C23_NotValid(pattern) ==
  /\ pattern.str /\ pattern.raw
  /\ \/ parse_raises(pattern.regex.data)
     \/ compile_raises(Parse(pattern.regex.data))

\* the frame the loop has just handled is a search for such a pattern
C23_MalformedSearch(s) ==
  /\ s.header = "length" /\ ~s.stray
  /\ Command(s.message) = "search"
  /\ "pattern" \in DOMAIN s.message.value
  /\ C23_NotValid(s.message.value.pattern)

\* C23: a search request whose pattern is not a valid regex is answered with
\* one error response, whatever the index holds, and leaves docs and inv as
\* they were
C23_MalformedQuery ==
  [][(srv'.n = srv.n + 1 /\ C23_MalformedSearch(srv')) =>
       (srv'.out = <<ErrorResponse>> /\ docs' = docs /\ inv' = inv)]_vars

\* the frame is one the loop must answer with an error: its framing is
\* malformed, its body is not JSON or no object, the command is missing or
\* unknown, the required field of the command is missing, or the handling
\* raises (a pattern or a changes value that is no string)
C26_Faulty(s) ==
  \/ s.header \in {"none", "not_a_number"}
  \/ s.message.json \in {"invalid", "number"}
  \/ /\ s.message.json = "object"
     /\ LET r == s.message.value IN
        \/ Command(s.message) \notin {"search", "apply_changes", "test", "shutdown"}
        \/ Command(s.message) = "search" /\ "pattern" \notin DOMAIN r
        \/ Command(s.message) = "apply_changes" /\ "changes" \notin DOMAIN r
        \/ Command(s.message) = "search" /\ "pattern" \in DOMAIN r /\ ~r.pattern.str
        \/ Command(s.message) = "apply_changes" /\ "changes" \in DOMAIN r /\ ~r.changes.str

\* C26: a faulty request that the loop reads from a stream in step is answered
\* with exactly one response, which carries an error string
C26_FaultyRequestsAnswered ==
  [][(srv'.n = srv.n + 1 /\ ~srv.stray /\ C26_Faulty(srv')) =>
       srv'.out = <<ErrorResponse>>]_vars

\* C27: the loop is left only by a shutdown request, which stops the observer
\* and is answered with status shutdown; every other request leaves the loop
\* reading, and once the loop is left nothing more is read or written
C27_ServesUntilShutdown ==
  [][/\ (srv.pc = "reading" /\ srv'.pc = "ended") =>
          /\ Command(srv'.message) = "shutdown"
          /\ srv'.observer = "stopped"
          /\ srv'.out = <<StatusResponse("shutdown")>>
     /\ (srv'.n = srv.n + 1 /\ ~srv.stray /\ srv'.header = "length"
           /\ Command(srv'.message) = "shutdown") => srv'.pc = "ended"
     /\ srv.pc = "ended" => srv' = srv]_vars

\* the last frame was a search request answered with a success response
C34_Succeeded ==
  /\ srv.n > 0 /\ Command(srv.message) = "search"
  /\ Len(srv.out) = 1 /\ srv.out[1].status = "success"

\* C34: in a success response to a search, total_matches is the number of
\* documents the index search returns, returned_matches is the number of file
\* entries and at most min(total_matches, max_results) when max_results is a
\* number >= 0 (100 when the request has none), and no file entry has more
\* than five match records
C34_ResponseCounts ==
  C34_Succeeded =>
    LET o == srv.out[1]
        m == max_results_of(srv.message.value)
    IN  /\ o.total_matches =
             Cardinality(SearchedIds([docs |-> docs, inv |-> inv],
                                     srv.message.value.pattern))
        /\ o.returned_matches = Cardinality(o.matches)
        /\ (m.kind = "int" /\ m.n >= 0) =>
             /\ o.returned_matches <= o.total_matches
             /\ o.returned_matches <= m.n
        /\ \A e \in o.matches : Len(e.matches) <= 5

\* two documents match, max_results 1 lets one file entry through, and of
\* the six matches in that file five are reported
C34_Witness ==
  /\ C34_Succeeded
  /\ "max_results" \in DOMAIN srv.message.value
  /\ srv.message.value.max_results = [kind |-> "int", n |-> 1]
  /\ srv.out[1].total_matches = 2
  /\ srv.out[1].returned_matches = 1
  /\ \E e \in srv.out[1].matches :
       Len(e.matches) = 5 /\ Len(fs[e.file]) = 6

(* ------------------- specification of the extractor ------------------- *)

InitTri ==
  /\ regex \in WrittenRegexes
  /\ rx = ParseRegex(regex)
  /\ str \in StringsUpTo(Alphabet, MaxStrLen)
  /\ req = {}
  /\ hit = FALSE
  /\ tpc = "input"
  /\ IdxIdle

\* required_trigrams(rx) is computed and rx is searched in str
Extract ==
  /\ tpc = "input"
  /\ req' = required_trigrams(rx)
  /\ hit' = HasMatch(rx, str)
  /\ tpc' = "done"
  /\ UNCHANGED <<regex, rx, str>>
  /\ UNCHANGED idxVars
  /\ UNCHANGED concVars
  /\ UNCHANGED applyVars
  /\ UNCHANGED srv
  /\ UNCHANGED ign

NextTri == Extract

SpecTri == InitTri /\ [][NextTri]_vars

\* C1: every trigram of required_trigrams(r) is a substring of every string
\* in which r has a match
C1_TrigramSoundness ==
  (tpc = "done" /\ hit) => \A t \in req : IsSubstring(t, str)

(* ------------ specification of the extractor on written regexes ------- *)

\* most alternatives of a written alternation
MaxBranches == 2

AltWords == Words \cup {<<"a","b","b","a","b","c">>, <<"c","a","b","c">>, <<"a">>, <<"c">>, <<>>}

\* the alternations b1|...|bn of literal words
Alternations == UNION {[1..n -> AltWords] : n \in 1..MaxBranches}

\* the written alternation of the words of alts
AltOf(alts) == Branch([i \in 1..Len(alts) |-> LitSeq(alts[i])])

\* p(b1|...|bn)q
GroupAlt(p, alts, q) == LitSeq(p) \o << Group(<< AltOf(alts) >>) >> \o LitSeq(q)

\* p(?:b1|...|bn)q
PlainAlt(p, alts, q) == LitSeq(p) \o << NonCapture(<< AltOf(alts) >>) >> \o LitSeq(q)

\* the body X of a written repetition: a character, (w), (?:w) or a nested
\* repetition
RepBodies ==
  {<<Lit("a")>>, <<AnyChar>>}
  \cup UNION {{ <<Group(LitSeq(w))>>, <<NonCapture(LitSeq(w))>>,
                <<Group(<<MaxRepeat(1, MAXREPEAT, <<NonCapture(LitSeq(w))>>)>>)>>,
                <<Group(<<MaxRepeat(0, 1, <<NonCapture(LitSeq(w))>>)>>)>>,
                <<Group(<<Lit("c"), Group(LitSeq(w))>>)>> } : w \in Words}

\* the quantifiers ?, *, +, {1,2}, {0,2}, {2}, {0}
Quantifiers == {<<0, 1>>, <<0, MAXREPEAT>>, <<1, MAXREPEAT>>, <<1, 2>>, <<0, 2>>, <<2, 2>>, <<0, 0>>}

\* pX{m,n}q
Repetition(p, body, mn, q) ==
  LitSeq(p) \o << MaxRepeat(mn[1], mn[2], body) >> \o LitSeq(q)

\* one node that is not a literal and holds no literal that must be matched
Breakers ==
  { AnyChar, In({"a", "b"}), AtBeginning, AtEnd,
    AssertAhead(LitSeq(<<"a","b","c">>)), AssertNotAhead(LitSeq(<<"a","b","c">>)),
    MaxRepeat(0, MAXREPEAT, <<AnyChar>>), MaxRepeat(2, 2, <<In({"a", "b"})>>) }

\* p, one breaking node, q
Broken(p, n, q) == LitSeq(p) \o << n >> \o LitSeq(q)

WrittenData ==
  {LitSeq(w) : w \in AltWords \cup Words}
  \cup {GroupAlt(p, alts, q) : p \in Prefixes, alts \in Alternations, q \in Suffixes}
  \cup {PlainAlt(p, alts, q) : p \in Prefixes, alts \in Alternations, q \in Suffixes}
  \cup {Repetition(p, b, mn, q) : p \in Prefixes, b \in RepBodies, mn \in Quantifiers, q \in Suffixes}
  \cup {Broken(p, n, q) : p \in Words, n \in Breakers, q \in Words}
  \cup {LitSeq(p) \o << In({"c"}) >> \o LitSeq(q) : p \in Prefixes, q \in Suffixes}

InitPat ==
  /\ regex \in {Regex(ic, d) : ic \in BOOLEAN, d \in WrittenData}
  /\ rx = NoRegex
  /\ str = <<>>
  /\ req = {}
  /\ hit = FALSE
  /\ tpc = "written"
  /\ IdxIdle

\* required_trigrams(regex): the regex is parsed and the tree is walked
RequiredTrigramsCall ==
  /\ tpc = "written"
  /\ rx' = ParseRegex(regex)
  /\ req' = required_trigrams(ParseRegex(regex))
  /\ tpc' = "done"
  /\ UNCHANGED <<regex, str, hit>>
  /\ UNCHANGED idxVars
  /\ UNCHANGED concVars
  /\ UNCHANGED applyVars
  /\ UNCHANGED srv
  /\ UNCHANGED ign

NextPat == RequiredTrigramsCall

SpecPat == InitPat /\ [][NextPat]_vars

RECURSIVE C11_CommonPrefix(_, _)
\* the longest word that every word of alts begins with, from length k on
C11_CommonPrefix(alts, k) ==
  IF /\ \A i \in 1..Len(alts) : Len(alts[i]) > k
     /\ \A i \in 1..Len(alts) : alts[i][k + 1] = alts[1][k + 1]
  THEN C11_CommonPrefix(alts, k + 1)
  ELSE SubSeq(alts[1], 1, k)

\* the trigrams that every word of ws holds
C11_InAll(ws) ==
  {t \in TrigramsOf(ws[1]) : \A i \in 1..Len(ws) : IsSubstring(t, ws[i])}

\* the alternatives without their first k characters
C11_Rests(alts, k) == [i \in 1..Len(alts) |-> SubSeq(alts[i], k + 1, Len(alts[i]))]

\* C11 as written: p(b1|...|bn)q gives the windows of p and of q and the
\* trigrams that every one of b1..bn holds
C11_AlternationIntersection ==
  \A p \in Prefixes, q \in Suffixes, alts \in Alternations :
    (tpc = "done" /\ regex.data = GroupAlt(p, alts, q)) =>
      req = TrigramsOf(p) \cup TrigramsOf(q) \cup C11_InAll(alts)

\* C11 as the code has it: the alternatives are intersected without their
\* common prefix, which stands in front of the alternation as a literal run
C11_AlternationIntersectionParsed ==
  \A p \in Prefixes, q \in Suffixes, alts \in Alternations :
    (tpc = "done" /\ regex.data = GroupAlt(p, alts, q)) =>
      LET c == IF Len(alts) = 1 THEN alts[1] ELSE C11_CommonPrefix(alts, 0)
      IN  req = TrigramsOf(p) \cup TrigramsOf(q) \cup TrigramsOf(c)
                \cup C11_InAll(C11_Rests(alts, Len(c)))

\* (foo|bar)baz-like and (abc|abbabc)-like: an alternation whose branches
\* differ after a common prefix, next to a literal suffix, has been extracted
C11_Witness ==
  /\ tpc = "done"
  /\ req # {}
  /\ \E p \in Prefixes, q \in Suffixes, alts \in Alternations :
       /\ regex.data = GroupAlt(p, alts, q)
       /\ Len(alts) = 2 /\ alts[1] # alts[2]
       /\ C11_CommonPrefix(alts, 0) # <<>>
       /\ q # <<>>

\* the required trigrams of a written sequence taken as a regex of its own
C12_RequiredOf(body) == required_trigrams(ParseRegex(Regex(FALSE, body)))

\* C12: pX{m,n}q gives the windows of p and of q and, when m >= 1 and only
\* then, the required trigrams of X
C12_RepetitionMinimum ==
  \A p \in Prefixes, q \in Suffixes, body \in RepBodies, mn \in Quantifiers :
    (tpc = "done" /\ regex.data = Repetition(p, body, mn, q)) =>
      req = TrigramsOf(p) \cup TrigramsOf(q)
            \cup (IF mn[1] >= 1 THEN C12_RequiredOf(body) ELSE {})

\* (abc){0,3}-like: a repetition of minimum 0 whose body, a group nested in a
\* group, has required trigrams, was extracted next to a literal that has some
C12_Witness ==
  /\ tpc = "done"
  /\ req # {}
  /\ \E p \in Prefixes, q \in Suffixes, body \in RepBodies, mn \in Quantifiers :
       /\ regex.data = Repetition(p, body, mn, q)
       /\ mn[1] = 0 /\ mn[2] > 0
       /\ body[1].op = "SUBPATTERN" /\ body[1].sub[1][1].op = "MAX_REPEAT"
       /\ C12_RequiredOf(body) # {}
       /\ ~(C12_RequiredOf(body) \subseteq req)

\* the literal strings of the maximal runs of LITERAL nodes of a sequence
C13_Runs(data) ==
  { [k \in 1..(j - i + 1) |-> data[i + k - 1].ch] :
      <<i, j>> \in { ij \in (1..Len(data)) \X (1..Len(data)) :
                      /\ ij[1] <= ij[2]
                      /\ \A k \in ij[1]..ij[2] : data[k].op = "LITERAL"
                      /\ (ij[1] = 1 \/ data[ij[1] - 1].op # "LITERAL")
                      /\ (ij[2] = Len(data) \/ data[ij[2] + 1].op # "LITERAL") } }

\* the length-3 windows of a literal string
C13_Windows(L) == { <<L[i], L[i + 1], L[i + 2]>> : i \in 1..(Len(L) - 2) }

\* C13: every window of every maximal literal run of the parsed sequence is
\* reported, and a regex that is one literal string gives its windows and
\* nothing else (nothing at all under three characters)
C13_LiteralWindows ==
  tpc = "done" =>
    /\ \A L \in C13_Runs(rx.data) : C13_Windows(L) \subseteq req
    /\ (\A k \in 1..Len(rx.data) : rx.data[k].op = "LITERAL") =>
         /\ req = UNION {C13_Windows(L) : L \in C13_Runs(rx.data)}
         /\ Len(rx.data) < 3 => req = {}
         /\ Cardinality(req) <= Len(rx.data)

\* a literal string of more than three characters gave several windows
C13_Witness ==
  /\ tpc = "done"
  /\ Len(rx.data) > 3
  /\ \A k \in 1..Len(rx.data) : rx.data[k].op = "LITERAL"
  /\ Cardinality(req) = Len(rx.data) - 2

\* the trigrams of req that lie in none of the given literal strings
C14_Outside(words) == {t \in req : \A w \in words : ~IsSubstring(t, w)}

\* the words of an alternation
C14_WordsOf(alts) == {alts[i] : i \in 1..Len(alts)}

\* C14 as written: a dot, class, anchor or look-around between two literal
\* strings gives the windows of the two strings and nothing else, a class
\* gives nothing, and no reported trigram has characters on two sides of the
\* boundary of a group, an alternation or a repetition
C14_NonLiteralsBreakRuns ==
  tpc = "done" =>
    /\ \A p \in Words, q \in Words, n \in Breakers :
         regex.data = Broken(p, n, q) => req = TrigramsOf(p) \cup TrigramsOf(q)
    /\ \A p \in Prefixes, q \in Suffixes :
         regex.data = LitSeq(p) \o << In({"c"}) >> \o LitSeq(q) =>
           req = TrigramsOf(p) \cup TrigramsOf(q)
    /\ \A p \in Prefixes, q \in Suffixes, alts \in Alternations :
         regex.data \in {GroupAlt(p, alts, q), PlainAlt(p, alts, q)} =>
           C14_Outside({p, q} \cup C14_WordsOf(alts)) = {}
    /\ \A p \in Prefixes, q \in Suffixes, body \in RepBodies, mn \in Quantifiers :
         regex.data = Repetition(p, body, mn, q) =>
           req \subseteq TrigramsOf(p) \cup TrigramsOf(q) \cup C12_RequiredOf(body)

\* C14 as the code has it: the same for the nodes of the parse tree; (?:w)
\* is no node, its content joins the literals around it, and neither is a
\* class of one character, which is that literal
C14_ParsedNodesBreakRuns ==
  tpc = "done" =>
    /\ \A p \in Words, q \in Words, n \in Breakers :
         regex.data = Broken(p, n, q) => req = TrigramsOf(p) \cup TrigramsOf(q)
    /\ \A p \in Prefixes, q \in Suffixes :
         regex.data = LitSeq(p) \o << In({"c"}) >> \o LitSeq(q) =>
           req = TrigramsOf(p \o <<"c">> \o q)
    /\ \A p \in Prefixes, q \in Suffixes, alts \in Alternations :
         /\ regex.data = GroupAlt(p, alts, q) =>
              C14_Outside({p, q} \cup C14_WordsOf(alts)) = {}
         /\ regex.data = PlainAlt(p, alts, q) =>
              IF Len(alts) = 1 THEN req = TrigramsOf(p \o alts[1] \o q)
              ELSE LET c == C11_CommonPrefix(alts, 0)
                   IN  req = TrigramsOf(p \o c) \cup TrigramsOf(q)
                             \cup C11_InAll(C11_Rests(alts, Len(c)))
    /\ \A p \in Prefixes, q \in Suffixes, body \in RepBodies, mn \in Quantifiers :
         regex.data = Repetition(p, body, mn, q) =>
           req \subseteq TrigramsOf(p) \cup TrigramsOf(q) \cup C12_RequiredOf(body)

\* h.*o-like: a dot, a class or a repeated dot between two literal strings
\* that each have a window
C14_Witness ==
  /\ tpc = "done"
  /\ \E p \in Words, q \in Words, n \in Breakers :
       /\ regex.data = Broken(p, n, q)
       /\ n.op \in {"ANY", "IN", "MAX_REPEAT"}
       /\ TrigramsOf(p) # {} /\ TrigramsOf(q) # {} /\ TrigramsOf(p) # TrigramsOf(q)
       /\ req = TrigramsOf(p) \cup TrigramsOf(q)

=============================================================================
